---------------------------- MODULE Spec2Model ----------------------------
(***************************************************************************)
(* GhostSQL: the table store (row codec, slotted pages, table operations,  *)
(* table file), the statement executor and the database manager with its   *)
(* PID lock file, modelled as state machines.                              *)
(***************************************************************************)
EXTENDS Integers, Sequences, FiniteSets, TLC

VARIABLES
    tables,     \* Tables of database "ghostsql" in the running instance: name -> Table
    files,      \* databases/ghostsql/tables/<name>.tbl: name -> file content
    result,     \* what the last operation returned (operation, error or not, rows)
    inserted,   \* history: the rows of table "t" in the order their INSERT succeeded
    lockFile,   \* ghostsql.pid in the data directory: <<>> if absent, else <<pid>>
    dataDirs,   \* the directories under databases/ (database names)
    srv,        \* per process: the Database object, [up, Databases, CurrentDatabase]
    mu,         \* Table.mu of table "t": 0 if free, else the goroutine holding it for writing
    calls       \* per goroutine: the statement it executes and how far it has got

svars == <<lockFile, dataDirs, srv, mu, calls>>
vars == <<tables, files, result, inserted, lockFile, dataDirs, srv, mu, calls>>

(***************************************************************************)
(* Bounds of the model.                                                    *)
(***************************************************************************)
MaxSlots == 2       \* rows ever written to the pages of one table
MaxSizedSlots == 3  \* the same, where the rows differ in size only
MaxPages == 3       \* pages of one table
MaxLayer == 2       \* the highest layer a node of an HNSW index is drawn into
MaxNodes == 4       \* vectors added to one HNSW index

(***************************************************************************)
(* Program constants.                                                      *)
(***************************************************************************)
PageSize == 16384
SlottedPageHeaderSize == 12
SlotSize == 4
U16 == 65536

(***************************************************************************)
(* Runtime values (Row map values, interface{}).  A value is a record      *)
(* [k, v, n]: k the dynamic type; v a sequence of integers (the int, the   *)
(* bytes of the string, the components of the vector); for a string, n is  *)
(* the number of Filler bytes that follow the bytes in v, so that long     *)
(* strings stay small in the model.                                        *)
(***************************************************************************)
Filler == 97 + 25     \* the byte 'z'
Nil == [k |-> "nil", v |-> <<>>, n |-> 0]
IntV(i) == [k |-> "int", v |-> <<i>>, n |-> 0]
StrV(chars, pad) == [k |-> "str", v |-> chars, n |-> pad]
VecV(vals) == [k |-> "vec", v |-> vals, n |-> 0]

StrLen(s) == Len(s.v) + s.n
CharAt(s, i) == IF i <= Len(s.v) THEN s.v[i] ELSE Filler

Min(a, b) == IF a <= b THEN a ELSE b

RECURSIVE Digits(_)
Digits(i) == IF i < 10 THEN <<48 + i>> ELSE Digits(i \div 10) \o <<48 + (i % 10)>>

\* fmt.Sprintf("%v", val), as a string value
Sprintv(val) ==
    CASE val.k = "nil" -> StrV(<<60, 110, 105, 108, 62>>, 0)
      [] val.k = "int" -> StrV(IF val.v[1] < 0 THEN <<45>> \o Digits(0 - val.v[1])
                                               ELSE Digits(val.v[1]), 0)
      [] val.k = "str" -> val
      [] val.k = "vec" -> StrV(<<86, 69, 67, 84, 79, 82, 40>> \o Digits(Len(val.v)) \o <<41>>, 0)

\* Go's string comparison (bytewise lexicographic): -1, 0 or 1
RECURSIVE StrCmpFrom(_, _, _)
StrCmpFrom(a, b, i) ==
    IF i > StrLen(a) \/ i > StrLen(b)
    THEN (IF StrLen(a) < StrLen(b) THEN -1 ELSE IF StrLen(a) > StrLen(b) THEN 1 ELSE 0)
    ELSE IF i > Len(a.v) /\ i > Len(b.v)
    THEN (IF StrLen(a) < StrLen(b) THEN -1 ELSE IF StrLen(a) > StrLen(b) THEN 1 ELSE 0)
    ELSE IF CharAt(a, i) < CharAt(b, i) THEN -1
    ELSE IF CharAt(a, i) > CharAt(b, i) THEN 1
    ELSE StrCmpFrom(a, b, i + 1)

StrCmp(a, b) == StrCmpFrom(a, b, 1)

toComparableInt(val) ==
    IF val.k = "int" THEN [ok |-> TRUE, i |-> val.v[1]] ELSE [ok |-> FALSE, i |-> 0]

compareValues(a, b) ==
    LET ai == toComparableInt(a)
        bi == toComparableInt(b)
    IN  IF ai.ok /\ bi.ok
        THEN (IF ai.i < bi.i THEN -1 ELSE IF ai.i > bi.i THEN 1 ELSE 0)
        ELSE StrCmp(Sprintv(a), Sprintv(b))

compare(a, b) == compareValues(a, b)

(***************************************************************************)
(* Row codec.  The encoded row is kept as its column count and one field   *)
(* per column; DataLen is the number of bytes of the encoding.             *)
(***************************************************************************)
toInt(val) == IF val.k = "int" THEN val.v[1] ELSE 0

\* int32(uint32(i)): the four bytes written for an INT, read back.  The integers
\* of the model all lie in the int32 range, where the conversion changes nothing.
WrapI32(i) == i

NullField == [null |-> TRUE, t |-> "NULL", v |-> <<>>, n |-> 0]

Present(row, name) == name \in DOMAIN row /\ row[name] # Nil

EncodeField(col, row) ==
    IF ~Present(row, col.Name) THEN NullField
    ELSE LET val == row[col.Name] IN
         CASE col.Type = "INT" ->
                [null |-> FALSE, t |-> "INT", v |-> <<WrapI32(toInt(val))>>, n |-> 0]
           [] col.Type \in {"TEXT", "VARCHAR"} ->
                [null |-> FALSE, t |-> "STR", v |-> Sprintv(val).v, n |-> Sprintv(val).n]
           [] col.Type = "VECTOR" ->
                [null |-> FALSE, t |-> "VEC", v |-> val.v, n |-> 0]
           [] OTHER -> [null |-> FALSE, t |-> "NONE", v |-> <<>>, n |-> 0]

EncodeRow(columns, row) ==
    IF \E i \in 1..Len(columns) :
          /\ columns[i].Type = "VECTOR"
          /\ Present(row, columns[i].Name)
          /\ row[columns[i].Name].k # "vec"
    THEN [err |-> "encode", data |-> [count |-> 0, fields |-> <<>>]]
    ELSE [err |-> "",
          data |-> [count |-> Len(columns) % U16,
                    fields |-> [i \in 1..Len(columns) |-> EncodeField(columns[i], row)]]]

FieldLen(f) ==
    2 + (CASE f.null -> 0
           [] f.t = "INT" -> 4
           [] f.t = "STR" -> 4 + Len(f.v) + f.n
           [] f.t = "VEC" -> 4 + 4 * Len(f.v)
           [] OTHER -> 0)

RECURSIVE SumLen(_, _)
SumLen(fields, i) == IF i > Len(fields) THEN 0 ELSE FieldLen(fields[i]) + SumLen(fields, i + 1)

DataLen(data) == 2 + SumLen(data.fields, 1)

DecodeField(col, f) ==
    IF f.null THEN Nil
    ELSE CASE col.Type = "INT" -> IntV(f.v[1])
           [] col.Type \in {"TEXT", "VARCHAR"} -> StrV(f.v, f.n)
           [] col.Type = "VECTOR" -> VecV(f.v)
           [] OTHER -> Nil

\* the name of columns[i] is decoded last at the last column that carries it
LastIndexOf(columns, name) ==
    CHOOSE i \in 1..Len(columns) :
        /\ columns[i].Name = name
        /\ \A j \in (i + 1)..Len(columns) : columns[j].Name # name

ColumnNameSet(columns) == {columns[i].Name : i \in 1..Len(columns)}

\* bytes: [data, length], the slot's bytes: the encoding and how many of its
\* bytes the slot holds
DecodeRow(columns, bytes) ==
    IF bytes.length < 2 THEN [err |-> "short", row |-> <<>>]
    ELSE IF bytes.data.count # Len(columns) THEN [err |-> "count", row |-> <<>>]
    ELSE IF bytes.length < DataLen(bytes.data) THEN [err |-> "end", row |-> <<>>]
    ELSE [err |-> "",
          row |-> [nm \in ColumnNameSet(columns) |->
                      DecodeField(columns[LastIndexOf(columns, nm)],
                                  bytes.data.fields[LastIndexOf(columns, nm)])]]


(***************************************************************************)
(* Slotted page.  Slots is the slot directory; the bytes of a row are kept *)
(* with the slot that points at them.  All header fields are uint16.       *)
(***************************************************************************)
NewSlottedPage(pageID) ==
    [PageID |-> pageID, NumSlots |-> 0, FreeStart |-> SlottedPageHeaderSize,
     FreeEnd |-> PageSize, Slots |-> <<>>]

IsFull(sp, dataSize) ==
    ((sp.FreeEnd - sp.FreeStart) % U16) < ((dataSize + SlotSize) % U16)

\* what a slot holds once a later copy has written over its bytes
Overwritten == [count |-> 0, fields |-> <<>>]

\* copy(sp.Data[from:], rowData) writes the bytes from..to-1 of the page, over
\* the rows that lie there
Clobber(slots, from, to) ==
    [i \in 1..Len(slots) |->
        IF slots[i].Length > 0 /\ slots[i].Offset < to
           /\ slots[i].Offset + slots[i].Length > from
        THEN [slots[i] EXCEPT !.Data = Overwritten]
        ELSE slots[i]]

\* sp.Data[sp.FreeEnd:] panics when FreeEnd has wrapped beyond the page; the
\* field FreeEnd is already changed then
InsertRow(sp, rowData) ==
    LET rowLen == DataLen(rowData) % U16
        spaceNeeded == (rowLen + SlotSize) % U16
        freeSpace == (sp.FreeEnd - sp.FreeStart) % U16
        freeEnd == (sp.FreeEnd - rowLen) % U16
        copied == IF DataLen(rowData) < PageSize - freeEnd
                  THEN DataLen(rowData) ELSE PageSize - freeEnd
    IN  IF freeSpace < spaceNeeded
        THEN [err |-> "space", page |-> sp]
        ELSE IF freeEnd > PageSize
        THEN [err |-> "panic", page |-> [sp EXCEPT !.FreeEnd = freeEnd]]
        ELSE [err |-> "",
              page |-> [PageID |-> sp.PageID,
                        NumSlots |-> (sp.NumSlots + 1) % U16,
                        FreeStart |-> (sp.FreeStart + SlotSize) % U16,
                        FreeEnd |-> freeEnd,
                        Slots |-> Append(Clobber(sp.Slots, freeEnd, freeEnd + copied),
                                   [Offset |-> freeEnd, Length |-> rowLen, Data |-> rowData])]]

\* the rows of the live slots, in slot order, each as [data, length]
GetAllRows(sp) ==
    LET Live(sl) == ~(sl.Offset = 0 /\ sl.Length = 0)
        live == SelectSeq(sp.Slots, Live)
    IN  [i \in 1..Len(live) |-> [data |-> live[i].Data, length |-> live[i].Length]]

\* the 16384 bytes of the page: the header and the slots, not FreeEnd
PageImage(sp) ==
    [PageID |-> sp.PageID, NumSlots |-> sp.NumSlots, FreeStart |-> sp.FreeStart,
     Slots |-> sp.Slots]

RECURSIVE MinOffset(_, _, _)
MinOffset(slots, i, acc) ==
    IF i > Len(slots) THEN acc
    ELSE MinOffset(slots, i + 1, IF slots[i].Offset < acc THEN slots[i].Offset ELSE acc)

LoadSlottedPage(image) ==
    [PageID |-> image.PageID, NumSlots |-> image.NumSlots, FreeStart |-> image.FreeStart,
     FreeEnd |-> MinOffset(image.Slots, 1, PageSize), Slots |-> image.Slots]

(***************************************************************************)
(* Table: [Columns, Rows, Pages].  A Column is                             *)
(* [Name, Type, Length, Nullable, IsPrimary, ForeignKey], ForeignKey being *)
(* <<>> or <<RefTable, RefColumn>>; a Row is a function from names to      *)
(* values.  Operations that can fail return [err, table]; err is "" for   *)
(* no error and the reason otherwise.                                      *)
(***************************************************************************)
NewTable(columns) ==
    [Columns |-> columns, Rows |-> <<>>, Pages |-> <<>>, VectorIndexes |-> [x \in {} |-> <<>>]]

GetColumnNames(t) == [i \in 1..Len(t.Columns) |-> t.Columns[i].Name]

\* index of the first page that is not full for dataSize, 0 if there is none
FirstPageWithSpace(pages, dataSize) ==
    IF \E i \in 1..Len(pages) : ~IsFull(pages[i], dataSize)
    THEN CHOOSE i \in 1..Len(pages) :
            /\ ~IsFull(pages[i], dataSize)
            /\ \A j \in 1..(i - 1) : IsFull(pages[j], dataSize)
    ELSE 0

TableInsert(t, row) ==
    IF \E i \in 1..Len(t.Columns) :
          t.Columns[i].Name \notin DOMAIN row /\ ~t.Columns[i].Nullable
    THEN [err |-> "missing", table |-> t]
    ELSE LET enc == EncodeRow(t.Columns, row) IN
         IF enc.err # "" THEN [err |-> "encode", table |-> t]
         ELSE LET found == FirstPageWithSpace(t.Pages, DataLen(enc.data) % U16)
                  pages == IF found = 0
                           THEN Append(t.Pages, NewSlottedPage(Len(t.Pages)))
                           ELSE t.Pages
                  target == IF found = 0 THEN Len(pages) ELSE found
                  ins == InsertRow(pages[target], enc.data)
              IN  IF ins.err # ""
                  THEN [err |-> "page", table |-> [t EXCEPT !.Pages = pages]]
                  ELSE [err |-> "",
                        table |-> [t EXCEPT !.Pages = [pages EXCEPT ![target] = ins.page],
                                            !.Rows = Append(t.Rows, row)]]

\* storage.WhereClause is [Column, Operator, Value]; None stands for a nil pointer
None == <<>>

evaluateWhere(row, where) ==
    IF where.Column \notin DOMAIN row THEN FALSE
    ELSE LET c == compare(row[where.Column], where.Value) IN
         CASE where.Operator = "=" -> c = 0
           [] where.Operator \in {"!=", "<>"} -> c # 0
           [] where.Operator = "<" -> c < 0
           [] where.Operator = "<=" -> c <= 0
           [] where.Operator = ">" -> c > 0
           [] where.Operator = ">=" -> c >= 0
           [] OTHER -> FALSE

Matches(row, where) == where = None \/ evaluateWhere(row, where)

Project(row, columnNames) ==
    [c \in {columnNames[i] : i \in 1..Len(columnNames)} \cap DOMAIN row |-> row[c]]

TableSelect(t, columnNames, where) ==
    LET Test(r) == Matches(r, where)
        hits == SelectSeq(t.Rows, Test)
    IN  IF columnNames = <<"*">> THEN hits
        ELSE [i \in 1..Len(hits) |-> Project(hits[i], columnNames)]

UpdateRow(row, updates) ==
    [c \in DOMAIN row \cup DOMAIN updates |->
        IF c \in DOMAIN updates THEN updates[c] ELSE row[c]]

TableUpdate(t, updates, where) ==
    [t EXCEPT !.Rows = [i \in 1..Len(t.Rows) |->
        IF Matches(t.Rows[i], where) THEN UpdateRow(t.Rows[i], updates) ELSE t.Rows[i]]]

TableDelete(t, where) ==
    LET Keep(r) == ~Matches(r, where)
    IN  [t EXCEPT !.Rows = IF where = None THEN <<>> ELSE SelectSeq(t.Rows, Keep)]

TableTruncate(t) == [t EXCEPT !.Rows = <<>>, !.Pages = <<>>]

TableAddColumn(t, col) ==
    IF \E i \in 1..Len(t.Columns) : t.Columns[i].Name = col.Name
    THEN [err |-> "exists", table |-> t]
    ELSE [err |-> "",
          table |-> [t EXCEPT !.Columns = Append(t.Columns, col),
                              !.Rows = [i \in 1..Len(t.Rows) |->
                                  [c \in DOMAIN t.Rows[i] \cup {col.Name} |->
                                      IF c = col.Name THEN Nil ELSE t.Rows[i][c]]]]]

\* the encoded rows of all pages, page by page, slot by slot
RECURSIVE AllPageRows(_, _)
AllPageRows(pages, i) ==
    IF i > Len(pages) THEN <<>> ELSE GetAllRows(pages[i]) \o AllPageRows(pages, i + 1)

LoadFromPages(t) ==
    LET bytes == AllPageRows(t.Pages, 1)
    IN  IF \E i \in 1..Len(bytes) : DecodeRow(t.Columns, bytes[i]).err # ""
        THEN [err |-> "decode", table |-> t]
        ELSE [err |-> "",
              table |-> [t EXCEPT !.Rows =
                            [i \in 1..Len(bytes) |-> DecodeRow(t.Columns, bytes[i]).row]]]

(***************************************************************************)
(* Table file: header, schema block (name, type, nullable), page images.   *)
(***************************************************************************)
SaveTableBinary(t) ==
    [NumColumns |-> Len(t.Columns) % U16,
     NumPages |-> Len(t.Pages),
     Schema |-> [i \in 1..Len(t.Columns) |->
                   [Name |-> t.Columns[i].Name, Type |-> t.Columns[i].Type,
                    Nullable |-> t.Columns[i].Nullable]],
     Pages |-> [i \in 1..Len(t.Pages) |-> PageImage(t.Pages[i])]]

LoadTableBinary(file) ==
    LoadFromPages(
        [Columns |-> [i \in 1..file.NumColumns |->
                        [Name |-> file.Schema[i].Name, Type |-> file.Schema[i].Type,
                         Length |-> 0, Nullable |-> file.Schema[i].Nullable,
                         IsPrimary |-> FALSE, ForeignKey |-> <<>>]],
         Rows |-> <<>>,
         Pages |-> [i \in 1..file.NumPages |-> LoadSlottedPage(file.Pages[i])],
         VectorIndexes |-> [x \in {} |-> <<>>]])

(***************************************************************************)
(* Vector literals.                                                        *)
(***************************************************************************)
IsDigit(ch) == ch >= 48 /\ ch <= 57

\* the literal without blanks, tabs and newlines
NoBlanks(chars) ==
    LET Keep(ch) == ch \notin {32, 9, 10} IN SelectSeq(chars, Keep)

\* splitVector: the non-empty parts between commas
RECURSIVE splitVector(_, _, _)
splitVector(chars, i, current) ==
    IF i > Len(chars) THEN (IF current = <<>> THEN <<>> ELSE <<current>>)
    ELSE IF chars[i] = 44
         THEN (IF current = <<>> THEN <<>> ELSE <<current>>) \o splitVector(chars, i + 1, <<>>)
         ELSE splitVector(chars, i + 1, Append(current, chars[i]))

RECURSIVE PartValue(_, _, _)
PartValue(part, i, acc) ==
    IF i > Len(part) THEN acc ELSE PartValue(part, i + 1, 10 * acc + (part[i] - 48))

\* ParseVector of a string value; the literals of the model hold digits only
ParseVector(s) ==
    LET c0 == IF s.n = 0 /\ Len(s.v) > 6 /\ SubSeq(s.v, 1, 5) = <<65, 82, 82, 65, 89>>
              THEN SubSeq(s.v, 6, Len(s.v)) ELSE s.v
        bad == [err |-> "format", vec |-> Nil]
    IN  IF s.n # 0 \/ Len(c0) < 2 \/ c0[1] # 91 \/ c0[Len(c0)] # 93 THEN bad
        ELSE LET parts == splitVector(NoBlanks(SubSeq(c0, 2, Len(c0) - 1)), 1, <<>>) IN
             IF \E i \in 1..Len(parts) : \E j \in 1..Len(parts[i]) : ~IsDigit(parts[i][j])
             THEN bad
             ELSE [err |-> "",
                   vec |-> VecV([i \in 1..Len(parts) |-> PartValue(parts[i], 1, 0)])]

(***************************************************************************)
(* Executor.  Statements are the parser's AST values.                      *)
(***************************************************************************)
EmptyMap == [x \in {} |-> Nil]

Put(f, k, v) == [x \in DOMAIN f \cup {k} |-> IF x = k THEN v ELSE f[x]]

Get(row, name) == IF name \in DOMAIN row THEN row[name] ELSE Nil

ZeroColumn ==
    [Name |-> "", Type |-> "INVALID", Length |-> 0, Nullable |-> FALSE,
     IsPrimary |-> FALSE, ForeignKey |-> <<>>]

\* the column definition executeInsert finds for a name: the first, or the zero Column
FindColumn(columns, name) ==
    IF \E i \in 1..Len(columns) : columns[i].Name = name
    THEN columns[CHOOSE i \in 1..Len(columns) :
                    /\ columns[i].Name = name
                    /\ \A j \in 1..(i - 1) : columns[j].Name # name]
    ELSE ZeroColumn

\* the value executeInsert stores for values[i]
StoredValue(colDef, val) ==
    IF colDef.Type = "VECTOR" /\ val.k = "str" THEN ParseVector(val).vec ELSE val

\* executeInsert, lines 612-658: the row of one value tuple
BuildRow(columns, colNames, values) ==
    IF Len(colNames) # Len(values) THEN [err |-> "count", row |-> EmptyMap]
    ELSE IF \E i \in 1..Len(colNames) :
               LET colDef == FindColumn(columns, colNames[i]) IN
               \/ /\ colDef.Type = "VARCHAR" /\ colDef.Length > 0
                  /\ values[i].k = "str" /\ StrLen(values[i]) > colDef.Length
               \/ /\ colDef.Type = "VECTOR" /\ values[i].k = "str"
                  /\ ParseVector(values[i]).err # ""
    THEN [err |-> "value", row |-> EmptyMap]
    ELSE [err |-> "",
          row |-> [c \in {colNames[i] : i \in 1..Len(colNames)} |->
                     LET last == CHOOSE i \in 1..Len(colNames) :
                                    /\ colNames[i] = c
                                    /\ \A j \in (i + 1)..Len(colNames) : colNames[j] # c
                     IN  StoredValue(FindColumn(columns, c), values[last])]]

NotNullOk(columns, row) ==
    \A i \in 1..Len(columns) : columns[i].Nullable \/ Present(row, columns[i].Name)

\* PrimaryKeyOk with the loop over the columns ending after the first column
PrimaryKeyOkFirstColumn(t, row) ==
    \A i \in 1..Min(1, Len(t.Columns)) :
        t.Columns[i].IsPrimary =>
            /\ Get(row, t.Columns[i].Name) # Nil
            /\ \A r \in 1..Len(t.Rows) :
                  compareValues(Get(row, t.Columns[i].Name),
                                Get(t.Rows[r], t.Columns[i].Name)) # 0

\* executeInsert, lines 670-685: the PRIMARY KEY check
PrimaryKeyOk(t, row) ==
    \A i \in 1..Len(t.Columns) :
        t.Columns[i].IsPrimary =>
            /\ Get(row, t.Columns[i].Name) # Nil
            /\ \A r \in 1..Len(t.Rows) :
                  compareValues(Get(row, t.Columns[i].Name),
                                Get(t.Rows[r], t.Columns[i].Name)) # 0

\* tbls: the tables of the database, the table being inserted into as it is now
ForeignKeyOk(tbls, columns, row) ==
    \A i \in 1..Len(columns) :
        LET fk == columns[i].ForeignKey
            fkValue == Get(row, columns[i].Name)
        IN  (fk # <<>> /\ ~(fkValue = Nil /\ columns[i].Nullable)) =>
               /\ fk[1] \in DOMAIN tbls
               /\ \E r \in 1..Len(tbls[fk[1]].Rows) :
                     compareValues(Get(tbls[fk[1]].Rows[r], fk[2]), fkValue) = 0

\* executeInsert, one iteration of the loop over stmt.Values
InsertTuple(tbls, name, colNames, values) ==
    LET t == tbls[name]
        names == IF Len(colNames) = 0 THEN GetColumnNames(t) ELSE colNames
        built == BuildRow(t.Columns, names, values)
    IN  IF built.err # "" THEN [err |-> built.err, table |-> t]
        ELSE IF ~NotNullOk(t.Columns, built.row) THEN [err |-> "null", table |-> t]
        ELSE IF ~PrimaryKeyOk(t, built.row) THEN [err |-> "pk", table |-> t]
        ELSE IF ~ForeignKeyOk(tbls, t.Columns, built.row) THEN [err |-> "fk", table |-> t]
        ELSE TableInsert(t, built.row)

\* the loop over stmt.Values from tuple k on: stops at the first error
RECURSIVE InsertLoop(_, _, _)
InsertLoop(tbls, stmt, k) ==
    IF k > Len(stmt.Values) THEN [err |-> "", table |-> tbls[stmt.TableName]]
    ELSE LET one == InsertTuple(tbls, stmt.TableName, stmt.Columns, stmt.Values[k]) IN
         IF one.err # "" THEN one
         ELSE InsertLoop(Put(tbls, stmt.TableName, one.table), stmt, k + 1)

\* convertWhereClause: Column, Operator and Value of the parser's clause
convertWhereClause(where) ==
    IF where = None THEN None
    ELSE [Column |-> where.Column, Operator |-> where.Operator, Value |-> where.Value]

SlotCount(t) == Len(AllPageRows(t.Pages, 1))

(***************************************************************************)
(* Joins.  A JoinClause is [Type, Table, Condition]; a JoinCondition is    *)
(* None or [LeftColumn, Operator, RightColumn].                            *)
(***************************************************************************)
\* for k, v := range row { merged[table+"."+k] = v }, on top of merged
Prefixed(merged, table, row) ==
    LET keys == {table \o "." \o k : k \in DOMAIN row}
    IN  [x \in DOMAIN merged \cup keys |->
            IF x \in keys THEN row[CHOOSE k \in DOMAIN row : table \o "." \o k = x]
            ELSE merged[x]]

MergeRows(leftTable, leftRow, rightTable, rightRow) ==
    Prefixed(Prefixed(EmptyMap, leftTable, leftRow), rightTable, rightRow)

\* the switch on condition.Operator
OperatorHolds(operator, cmp) ==
    CASE operator = "=" -> cmp = 0
      [] operator = "!=" -> cmp # 0
      [] operator = "<" -> cmp < 0
      [] operator = ">" -> cmp > 0
      [] operator = "<=" -> cmp <= 0
      [] operator = ">=" -> cmp >= 0
      [] OTHER -> FALSE

evaluateJoinCondition(leftRow, rightRow, condition) ==
    IF condition = None THEN TRUE
    ELSE IF Get(leftRow, condition.LeftColumn) = Nil
            \/ Get(rightRow, condition.RightColumn) = Nil
    THEN FALSE
    ELSE OperatorHolds(condition.Operator,
                       compareValues(Get(leftRow, condition.LeftColumn),
                                     Get(rightRow, condition.RightColumn)))

\* the inner loop over rightRows from j on, for one leftRow: the merged rows
\* appended and the indexes of the right rows that matched
RECURSIVE JoinInner(_, _, _, _, _, _)
JoinInner(leftTable, leftRow, rightTable, rightRows, condition, j) ==
    IF j > Len(rightRows) THEN [rows |-> <<>>, hit |-> {}]
    ELSE IF evaluateJoinCondition(leftRow, rightRows[j], condition)
    THEN [rows |-> <<MergeRows(leftTable, leftRow, rightTable, rightRows[j])>>
                   \o JoinInner(leftTable, leftRow, rightTable, rightRows, condition, j + 1).rows,
          hit |-> {j}
                  \cup JoinInner(leftTable, leftRow, rightTable, rightRows, condition, j + 1).hit]
    ELSE JoinInner(leftTable, leftRow, rightTable, rightRows, condition, j + 1)

RECURSIVE executeInnerJoin(_, _, _, _, _, _)
executeInnerJoin(leftTable, leftRows, rightTable, rightRows, condition, i) ==
    IF i > Len(leftRows) THEN <<>>
    ELSE JoinInner(leftTable, leftRows[i], rightTable, rightRows, condition, 1).rows
         \o executeInnerJoin(leftTable, leftRows, rightTable, rightRows, condition, i + 1)

\* the rows appended for one row of the outer loop: the merged rows, or the
\* row alone if !matched
MatchedOrAlone(merged, table, row) ==
    IF merged = <<>> THEN <<Prefixed(EmptyMap, table, row)>> ELSE merged

\* executeLeftJoin without the "if !matched" block
RECURSIVE executeLeftJoinMatchedOnly(_, _, _, _, _, _)
executeLeftJoinMatchedOnly(leftTable, leftRows, rightTable, rightRows, condition, i) ==
    IF i > Len(leftRows) THEN <<>>
    ELSE JoinInner(leftTable, leftRows[i], rightTable, rightRows, condition, 1).rows
         \o executeLeftJoinMatchedOnly(leftTable, leftRows, rightTable, rightRows,
                                       condition, i + 1)

RECURSIVE executeLeftJoin(_, _, _, _, _, _)
executeLeftJoin(leftTable, leftRows, rightTable, rightRows, condition, i) ==
    IF i > Len(leftRows) THEN <<>>
    ELSE MatchedOrAlone(
             JoinInner(leftTable, leftRows[i], rightTable, rightRows, condition, 1).rows,
             leftTable, leftRows[i])
         \o executeLeftJoin(leftTable, leftRows, rightTable, rightRows, condition, i + 1)

\* the inner loop of executeRightJoin over leftRows from i on, for one rightRow
RECURSIVE JoinInnerRight(_, _, _, _, _, _)
JoinInnerRight(leftTable, leftRows, rightTable, rightRow, condition, i) ==
    IF i > Len(leftRows) THEN <<>>
    ELSE (IF evaluateJoinCondition(leftRows[i], rightRow, condition)
          THEN <<MergeRows(leftTable, leftRows[i], rightTable, rightRow)>> ELSE <<>>)
         \o JoinInnerRight(leftTable, leftRows, rightTable, rightRow, condition, i + 1)

RECURSIVE executeRightJoin(_, _, _, _, _, _)
executeRightJoin(leftTable, leftRows, rightTable, rightRows, condition, j) ==
    IF j > Len(rightRows) THEN <<>>
    ELSE MatchedOrAlone(
             JoinInnerRight(leftTable, leftRows, rightTable, rightRows[j], condition, 1),
             rightTable, rightRows[j])
         \o executeRightJoin(leftTable, leftRows, rightTable, rightRows, condition, j + 1)

\* rightMatched after the first loop of executeFullJoin, from leftRow i on
RECURSIVE rightMatched(_, _, _, _, _, _)
rightMatched(leftTable, leftRows, rightTable, rightRows, condition, i) ==
    IF i > Len(leftRows) THEN {}
    ELSE JoinInner(leftTable, leftRows[i], rightTable, rightRows, condition, 1).hit
         \cup rightMatched(leftTable, leftRows, rightTable, rightRows, condition, i + 1)

\* the second loop of executeFullJoin, from rightRow j on
RECURSIVE UnmatchedRight(_, _, _, _)
UnmatchedRight(rightTable, rightRows, matched, j) ==
    IF j > Len(rightRows) THEN <<>>
    ELSE (IF j \in matched THEN <<>> ELSE <<Prefixed(EmptyMap, rightTable, rightRows[j])>>)
         \o UnmatchedRight(rightTable, rightRows, matched, j + 1)

executeFullJoin(leftTable, leftRows, rightTable, rightRows, condition) ==
    executeLeftJoin(leftTable, leftRows, rightTable, rightRows, condition, 1)
    \o UnmatchedRight(rightTable, rightRows,
                      rightMatched(leftTable, leftRows, rightTable, rightRows, condition, 1), 1)

executeCrossJoin(leftTable, leftRows, rightTable, rightRows) ==
    executeInnerJoin(leftTable, leftRows, rightTable, rightRows, None, 1)

JoinTypes == {"INNER", "LEFT", "RIGHT", "FULL", "CROSS"}

\* the switch on join.Type
JoinOne(type, leftTable, leftRows, rightTable, rightRows, condition) ==
    CASE type = "INNER" ->
           executeInnerJoin(leftTable, leftRows, rightTable, rightRows, condition, 1)
      [] type = "LEFT" ->
           executeLeftJoin(leftTable, leftRows, rightTable, rightRows, condition, 1)
      [] type = "RIGHT" ->
           executeRightJoin(leftTable, leftRows, rightTable, rightRows, condition, 1)
      [] type = "FULL" ->
           executeFullJoin(leftTable, leftRows, rightTable, rightRows, condition)
      [] type = "CROSS" ->
           executeCrossJoin(leftTable, leftRows, rightTable, rightRows)

\* executeJoins from join n on: [err, rows]
RECURSIVE executeJoins(_, _, _, _, _)
executeJoins(tbls, leftTable, resultRows, joins, n) ==
    IF n > Len(joins) THEN [err |-> "", rows |-> resultRows]
    ELSE IF joins[n].Table \notin DOMAIN tbls THEN [err |-> "table", rows |-> <<>>]
    ELSE IF joins[n].Type \notin JoinTypes THEN [err |-> "type", rows |-> <<>>]
    ELSE executeJoins(tbls, joins[n].Table,
                      JoinOne(joins[n].Type, leftTable, resultRows, joins[n].Table,
                              TableSelect(tbls[joins[n].Table], <<"*">>, None),
                              joins[n].Condition),
                      joins, n + 1)

\* executeSelect, lines 774-785: OFFSET, then LIMIT
ApplyOffsetLimit(rows, offset, limit) ==
    LET skipped == IF offset > 0
                   THEN (IF offset < Len(rows) THEN SubSeq(rows, offset + 1, Len(rows)) ELSE <<>>)
                   ELSE rows
    IN  IF limit > 0 /\ limit < Len(skipped) THEN SubSeq(skipped, 1, limit) ELSE skipped

RECURSIVE JoinColumns(_, _, _)
JoinColumns(tbls, joins, n) ==
    IF n > Len(joins) THEN <<>>
    ELSE LET names == GetColumnNames(tbls[joins[n].Table]) IN
         [i \in 1..Len(names) |-> joins[n].Table \o "." \o names[i]]
         \o JoinColumns(tbls, joins, n + 1)

\* executeSelect, lines 787-805: the column list of the result
ResultColumns(tbls, stmt) ==
    IF stmt.Columns = <<"*">>
    THEN (IF Len(stmt.Joins) > 0
          THEN LET names == GetColumnNames(tbls[stmt.TableName]) IN
               [i \in 1..Len(names) |-> stmt.TableName \o "." \o names[i]]
               \o JoinColumns(tbls, stmt.Joins, 1)
          ELSE GetColumnNames(tbls[stmt.TableName]))
    ELSE stmt.Columns

(***************************************************************************)
(* The statements the model executes.                                      *)
(***************************************************************************)
Col(name, type, length, nullable, primary, fk) ==
    [Name |-> name, Type |-> type, Length |-> length, Nullable |-> nullable,
     IsPrimary |-> primary, ForeignKey |-> fk]

cId == Col("id", "INT", 0, FALSE, TRUE, <<>>)
cOptId == Col("id", "INT", 0, TRUE, FALSE, <<>>)
cBody == Col("val", "TEXT", 0, TRUE, FALSE, <<>>)
cName == Col("val", "VARCHAR", 2, TRUE, FALSE, <<>>)
cRef == Col("val", "INT", 0, TRUE, FALSE, <<"t", "id">>)
cVec == Col("val", "VECTOR", 0, TRUE, FALSE, <<>>)
cDup == Col("id", "TEXT", 0, TRUE, FALSE, <<>>)
cKey == Col("val", "TEXT", 0, TRUE, TRUE, <<>>)
cExtra == Col("extra", "INT", 0, TRUE, FALSE, <<>>)

sAbc == StrV(<<97, 98, 99>>, 0)      \* 'abc'
sOne == StrV(<<49>>, 0)              \* '1'

CreateStmt(cols) == [TableName |-> "t", Columns |-> cols]
InsertStmt(cols, tuples) == [TableName |-> "t", Columns |-> cols, Values |-> tuples]
\* SELECT * FROM name [WHERE where]
SelectStmt(name, where) ==
    [TableName |-> name, Columns |-> <<"*">>, Where |-> where, Joins |-> <<>>,
     VectorOrderBy |-> None, Limit |-> 0, Offset |-> 0]
Leaf(c, op, v) == [Column |-> c, Operator |-> op, Value |-> v, And |-> None, Or |-> None]

wAnd == [Leaf("id", ">=", IntV(1)) EXCEPT !.And = Leaf("val", "=", sAbc)]
wOr == [Leaf("id", "=", IntV(1)) EXCEPT !.Or = Leaf("val", "=", sAbc)]

(***************************************************************************)
(* Database manager: lock file, database map, current database.            *)
(***************************************************************************)
Res(op, ok, arg, rows) == [op |-> op, ok |-> ok, arg |-> arg, rows |-> rows]

Procs == {1, 2}

\* the goroutines that call Executor.Execute, and one that executes nothing
Goroutines == {1, 2}
Idle == [pc |-> "idle", stmt |-> <<>>, numPages |-> 0]
DbOrder == <<"app", "ghostsql", "zoo">>     \* the names used, as os.ReadDir sorts them
DbNames == {DbOrder[i] : i \in 1..Len(DbOrder)}

NoLock == <<>>
Down == [up |-> FALSE, Databases |-> {}, CurrentDatabase |-> ""]

\* acquireLock opening the file without O_EXCL
acquireLockNoExcl(lock, pid) == [err |-> "", lock |-> <<pid>>]

\* os.OpenFile(O_CREATE|O_EXCL): fails if the file exists, else holds the pid
acquireLock(lock, pid) ==
    IF lock # NoLock THEN [err |-> "exists", lock |-> lock]
    ELSE [err |-> "", lock |-> <<pid>>]

FirstDir(dirs) ==
    DbOrder[CHOOSE i \in 1..Len(DbOrder) :
               DbOrder[i] \in dirs /\ \A j \in 1..(i - 1) : DbOrder[j] \notin dirs]

\* loadTablesForDatabase: the table files that load; the others are skipped
LoadTables(fs) ==
    [n \in {m \in DOMAIN fs : LoadTableBinary(fs[m]).err = ""} |->
        LoadTableBinary(fs[n]).table]

\* the database map and current database LoadAllDatabases leaves
LoadAllDatabases(dirs) ==
    [up |-> TRUE, Databases |-> dirs,
     CurrentDatabase |-> IF dirs = {} THEN "" ELSE FirstDir(dirs)]

\* CreateDatabase on a Database object: [err, db]
CreateDatabaseIn(db, dbName) ==
    IF dbName \in db.Databases THEN [err |-> "exists", db |-> db]
    ELSE [err |-> "",
          db |-> [db EXCEPT !.Databases = @ \cup {dbName},
                            !.CurrentDatabase = IF @ = "" THEN dbName ELSE @]]

UseDatabaseIn(db, dbName) ==
    IF dbName \notin db.Databases THEN [err |-> "unknown", db |-> db]
    ELSE [err |-> "", db |-> [db EXCEPT !.CurrentDatabase = dbName]]

\* DropDatabase without the test for the current database
DropDatabaseInAny(db, dbName) ==
    IF dbName \notin db.Databases THEN [err |-> "unknown", db |-> db]
    ELSE [err |-> "", db |-> [db EXCEPT !.Databases = @ \ {dbName}]]

DropDatabaseIn(db, dbName) ==
    IF dbName = db.CurrentDatabase THEN [err |-> "current", db |-> db]
    ELSE IF dbName \notin db.Databases THEN [err |-> "unknown", db |-> db]
    ELSE [err |-> "", db |-> [db EXCEPT !.Databases = @ \ {dbName}]]

GetCurrentDatabase(db) ==
    IF db.CurrentDatabase = "" THEN [err |-> "none"]
    ELSE IF db.CurrentDatabase \notin db.Databases THEN [err |-> "missing"]
    ELSE [err |-> ""]

Initialize(p) ==
    /\ ~srv[p].up
    /\ LET got == acquireLock(lockFile, p) IN
       IF got.err # ""
       THEN /\ result' = Res("initialize", FALSE, p, <<>>)
            /\ UNCHANGED <<tables, files, lockFile, dataDirs, srv, mu, calls>>
       ELSE LET loaded == LoadAllDatabases(dataDirs)
                db == IF loaded.Databases = {}
                      THEN CreateDatabaseIn(loaded, "ghostsql").db ELSE loaded
            IN  /\ lockFile' = got.lock
                /\ dataDirs' = db.Databases
                /\ srv' = [srv EXCEPT ![p] = db]
                /\ tables' = LoadTables(files)
                /\ files' = files
                /\ result' = Res("initialize", TRUE, p, <<>>)
                /\ UNCHANGED <<mu, calls>>

\* Shutdown: saves every table, removes the lock file; the process then ends
Shutdown(p) ==
    /\ srv[p].up
    /\ files' = [n \in DOMAIN files \cup DOMAIN tables |->
                    IF n \in DOMAIN tables THEN SaveTableBinary(tables[n]) ELSE files[n]]
    /\ lockFile' = NoLock
    /\ srv' = [srv EXCEPT ![p] = Down]
    /\ tables' = EmptyMap
    /\ dataDirs' = dataDirs
    /\ result' = Res("shutdown", TRUE, p, <<>>)
    /\ UNCHANGED <<mu, calls>>

\* the process ends without Shutdown
Crash(p) ==
    /\ srv[p].up
    /\ srv' = [srv EXCEPT ![p] = Down]
    /\ tables' = EmptyMap
    /\ result' = Res("crash", TRUE, p, <<>>)
    /\ UNCHANGED <<files, lockFile, dataDirs, mu, calls>>

\* the operator removes a stale lock file while no instance runs
RemoveLock ==
    /\ lockFile # NoLock
    /\ \A p \in Procs : ~srv[p].up
    /\ lockFile' = NoLock
    /\ result' = Res("unlock", TRUE, None, <<>>)
    /\ UNCHANGED <<tables, files, dataDirs, srv, mu, calls>>

ExecuteCreateDatabase(p, dbName) ==
    /\ srv[p].up
    /\ LET res == CreateDatabaseIn(srv[p], dbName) IN
       /\ srv' = [srv EXCEPT ![p] = res.db]
       /\ dataDirs' = IF res.err = "" THEN dataDirs \cup {dbName} ELSE dataDirs
       /\ result' = Res("createdb", res.err = "", dbName, <<>>)
       /\ UNCHANGED <<tables, files, lockFile, mu, calls>>

ExecuteUseDatabase(p, dbName) ==
    /\ srv[p].up
    /\ LET res == UseDatabaseIn(srv[p], dbName) IN
       /\ srv' = [srv EXCEPT ![p] = res.db]
       /\ result' = Res("use", res.err = "", dbName, <<>>)
       /\ UNCHANGED <<tables, files, lockFile, dataDirs, mu, calls>>

\* os.RemoveAll of the database directory takes the table files with it
ExecuteDropDatabase(p, dbName) ==
    /\ srv[p].up
    /\ LET res == DropDatabaseIn(srv[p], dbName)
           gone == res.err = "" /\ dbName = "ghostsql"
       IN
       /\ srv' = [srv EXCEPT ![p] = res.db]
       /\ dataDirs' = IF res.err = "" THEN dataDirs \ {dbName} ELSE dataDirs
       /\ tables' = IF gone THEN EmptyMap ELSE tables
       /\ files' = IF gone THEN EmptyMap ELSE files
       /\ result' = Res("dropdb", res.err = "", dbName, <<>>)
       /\ lockFile' = lockFile
       /\ UNCHANGED <<mu, calls>>

(***************************************************************************)
(* Execute, one action per statement kind, on the tables of "ghostsql".    *)
(***************************************************************************)
\* an instance runs and its current database is "ghostsql"
Serving ==
    \E p \in Procs :
        /\ srv[p].up
        /\ GetCurrentDatabase(srv[p]).err = ""
        /\ srv[p].CurrentDatabase = "ghostsql"

ExecuteCreateTable(stmt) ==
    LET table == NewTable([i \in 1..Len(stmt.Columns) |->
                    Col(stmt.Columns[i].Name, stmt.Columns[i].Type, stmt.Columns[i].Length,
                        stmt.Columns[i].Nullable, stmt.Columns[i].IsPrimary,
                        stmt.Columns[i].ForeignKey)])
    IN  /\ Serving
        /\ tables' = Put(tables, stmt.TableName, table)
        /\ files' = Put(files, stmt.TableName, SaveTableBinary(table))
        /\ result' = Res("create", TRUE, stmt.Columns, <<>>)
        /\ UNCHANGED svars

\* "table ... does not exist"
NoTable(op, arg) ==
    /\ result' = Res(op, FALSE, arg, <<>>)
    /\ UNCHANGED <<tables, files>>

ExecuteInsert(stmt, maxSlots) ==
    /\ Serving
    /\ UNCHANGED svars
    /\ IF stmt.TableName \notin DOMAIN tables THEN NoTable("insert", stmt)
       ELSE LET res == InsertLoop(tables, stmt, 1) IN
            /\ SlotCount(res.table) <= maxSlots
            /\ Len(res.table.Pages) <= MaxPages
            /\ tables' = Put(tables, stmt.TableName, res.table)
            /\ files' = IF res.err # "" THEN files
                        ELSE Put(files, stmt.TableName, SaveTableBinary(res.table))
            /\ result' = Res("insert", res.err = "", stmt, <<>>)

(***************************************************************************)
(* Vector distances.  The components of the model's vectors are small      *)
(* naturals, so every sum below is exact in float64.  A distance is kept   *)
(* exactly, as [m, p, q]: for L2 the value is sqrt(p) (q = 1); for COSINE   *)
(* it is 1 - p / sqrt(q), p the dot product and q the product of the two   *)
(* squared norms (p = 0, q = 1 when a norm is 0).                          *)
(***************************************************************************)
RECURSIVE DotFrom(_, _, _)
DotFrom(a, b, i) == IF i > Len(a) THEN 0 ELSE a[i] * b[i] + DotFrom(a, b, i + 1)

RECURSIVE SquaredDiffFrom(_, _, _)
SquaredDiffFrom(a, b, i) ==
    IF i > Len(a) THEN 0 ELSE (a[i] - b[i]) * (a[i] - b[i]) + SquaredDiffFrom(a, b, i + 1)

CosineDistance(a, b) ==
    IF DotFrom(a.v, a.v, 1) = 0 \/ DotFrom(b.v, b.v, 1) = 0
    THEN [m |-> "COSINE", p |-> 0, q |-> 1]
    ELSE [m |-> "COSINE", p |-> DotFrom(a.v, b.v, 1),
          q |-> DotFrom(a.v, a.v, 1) * DotFrom(b.v, b.v, 1)]

L2Distance(a, b) == [m |-> "L2", p |-> SquaredDiffFrom(a.v, b.v, 1), q |-> 1]

\* the float64 0 that comes with an error
ZeroDistance == [m |-> "ZERO", p |-> 0, q |-> 1]

\* CalculateDistance: [err, d]
CalculateDistance(a, b, metric) ==
    IF a = Nil \/ b = Nil THEN [err |-> "nil", d |-> ZeroDistance]
    ELSE IF Len(a.v) # Len(b.v) THEN [err |-> "dimension", d |-> ZeroDistance]
    ELSE CASE metric = "COSINE" -> [err |-> "", d |-> CosineDistance(a, b)]
           [] metric = "L2" -> [err |-> "", d |-> L2Distance(a, b)]
           [] OTHER -> [err |-> "metric", d |-> ZeroDistance]

\* x < y on float64 distances.  sqrt is monotonic; for COSINE, 1 - p/sqrt(q)
\* with p >= 0 is compared through p * p and q.  The float64 0 is L2's
\* sqrt(0) and COSINE's 1 - 1.
DistLess(x, y) ==
    CASE x.m = "ZERO" /\ y.m = "ZERO" -> FALSE
      [] x.m = "ZERO" /\ y.m = "L2" -> 0 < y.p
      [] x.m = "L2" /\ y.m = "ZERO" -> FALSE
      [] x.m = "ZERO" /\ y.m = "COSINE" -> y.p * y.p < y.q
      [] x.m = "COSINE" /\ y.m = "ZERO" -> x.p * x.p > x.q
      [] x.m = "L2" /\ y.m = "L2" -> x.p < y.p
      [] x.m = "COSINE" /\ y.m = "COSINE" -> x.p * x.p * y.q > y.p * y.p * x.q
      [] OTHER -> FALSE

\* VectorSearch, lines 104-124: the rows that hold a vector of the query's
\* dimension in the column, each with its distance
RECURSIVE Scored(_, _, _, _, _)
Scored(rows, queryVector, vectorColumn, metric, i) ==
    IF i > Len(rows) THEN <<>>
    ELSE (IF /\ vectorColumn \in DOMAIN rows[i]
             /\ rows[i][vectorColumn].k = "vec"
             /\ CalculateDistance(queryVector, rows[i][vectorColumn], metric).err = ""
          THEN <<[Row |-> rows[i],
                  Distance |-> CalculateDistance(queryVector, rows[i][vectorColumn], metric).d]>>
          ELSE <<>>)
         \o Scored(rows, queryVector, vectorColumn, metric, i + 1)

Swap(s, i, j) == [s EXCEPT ![i] = s[j], ![j] = s[i]]

\* the loop over j of the sort in VectorSearch
RECURSIVE SortInner(_, _, _)
SortInner(results, i, j) ==
    IF j > Len(results) THEN results
    ELSE SortInner(IF DistLess(results[j].Distance, results[i].Distance)
                   THEN Swap(results, i, j) ELSE results,
                   i, j + 1)

\* the loop over i
RECURSIVE SortOuter(_, _)
SortOuter(results, i) ==
    IF i >= Len(results) THEN results
    ELSE SortOuter(SortInner(results, i, i + 1), i + 1)

ApplyLimit(results, limit) ==
    IF limit > 0 /\ limit < Len(results) THEN SubSeq(results, 1, limit) ELSE results

VectorSearch(rows, queryVector, vectorColumn, metric, limit) ==
    ApplyLimit(SortOuter(Scored(rows, queryVector, vectorColumn, metric, 1), 1), limit)

(***************************************************************************)
(* HNSW index: [Vectors, RowIDs, Graph, EntryPoint, M, EfConstruction,     *)
(* Metric].  Node ids start at 0 as in the code: node id is Vectors[id+1]; *)
(* layer l is Graph[l+1], a function from node ids to neighbour lists.     *)
(***************************************************************************)
NewHNSWIndex(m, efConstruction, metric) ==
    [Vectors |-> <<>>, RowIDs |-> <<>>, Graph |-> <<>>, EntryPoint |-> 0 - 1,
     MaxLayers |-> 16, M |-> m, EfConstruction |-> efConstruction, Metric |-> metric]

\* the distance of the query to node id, 0 on an error
NodeDistance(h, query, id) == CalculateDistance(query, h.Vectors[id + 1], h.Metric)

\* ScanNeighbors moving also to a neighbour at the same distance ("<=" for "<")
RECURSIVE ScanNeighborsOrEqual(_, _, _, _, _)
ScanNeighborsOrEqual(h, query, neighbors, k, best) ==
    IF k > Len(neighbors) THEN best
    ELSE ScanNeighborsOrEqual(h, query, neighbors, k + 1,
            IF /\ neighbors[k] < Len(h.Vectors)
               /\ NodeDistance(h, query, neighbors[k]).err = ""
               /\ ~DistLess(best.d, NodeDistance(h, query, neighbors[k]).d)
            THEN [id |-> neighbors[k], d |-> NodeDistance(h, query, neighbors[k]).d,
                  changed |-> TRUE]
            ELSE best)

\* findClosestInLayer, the loop over the neighbours from the k-th on;
\* best is [id, d, changed]
RECURSIVE ScanNeighbors(_, _, _, _, _)
ScanNeighbors(h, query, neighbors, k, best) ==
    IF k > Len(neighbors) THEN best
    ELSE ScanNeighbors(h, query, neighbors, k + 1,
            IF /\ neighbors[k] < Len(h.Vectors)
               /\ NodeDistance(h, query, neighbors[k]).err = ""
               /\ DistLess(NodeDistance(h, query, neighbors[k]).d, best.d)
            THEN [id |-> neighbors[k], d |-> NodeDistance(h, query, neighbors[k]).d,
                  changed |-> TRUE]
            ELSE best)

\* findClosestInLayer, the loop "for changed"
RECURSIVE ClosestLoop(_, _, _, _)
ClosestLoop(h, query, layer, best) ==
    IF ~best.changed \/ best.id \notin DOMAIN h.Graph[layer + 1] THEN best.id
    ELSE ClosestLoop(h, query, layer,
            ScanNeighbors(h, query, h.Graph[layer + 1][best.id], 1,
                          [best EXCEPT !.changed = FALSE]))

findClosestInLayer(h, query, ep, layer) ==
    IF layer >= Len(h.Graph) THEN ep
    ELSE ClosestLoop(h, query, layer,
            [id |-> ep, d |-> NodeDistance(h, query, ep).d, changed |-> TRUE])

\* container/heap on a PriorityQueue: element i of the code is pq[i+1]
Less(pq, i, j) == DistLess(pq[i + 1].Distance, pq[j + 1].Distance)

RECURSIVE HeapUp(_, _)
HeapUp(pq, j) ==
    IF j = 0 \/ ~Less(pq, j, (j - 1) \div 2) THEN pq
    ELSE HeapUp(Swap(pq, (j - 1) \div 2 + 1, j + 1), (j - 1) \div 2)

\* the child of i that down() compares with i
SmallerChild(pq, i, n) ==
    IF 2 * i + 2 < n /\ Less(pq, 2 * i + 2, 2 * i + 1) THEN 2 * i + 2 ELSE 2 * i + 1

RECURSIVE HeapDown(_, _, _)
HeapDown(pq, i, n) ==
    IF 2 * i + 1 >= n \/ ~Less(pq, SmallerChild(pq, i, n), i) THEN pq
    ELSE HeapDown(Swap(pq, i + 1, SmallerChild(pq, i, n) + 1), SmallerChild(pq, i, n), n)

HeapPush(pq, item) == HeapUp(Append(pq, item), Len(pq))

\* heap.Pop: the queue with its minimum moved to the end
HeapPop(pq) == HeapDown(Swap(pq, 1, Len(pq)), 0, Len(pq) - 1)

\* searchLayer, the loop over the neighbours of the current node from the
\* k-th on; st is [pq, visited]
RECURSIVE Explore(_, _, _, _, _)
Explore(h, query, neighbors, k, st) ==
    IF k > Len(neighbors) THEN st
    ELSE Explore(h, query, neighbors, k + 1,
            IF neighbors[k] \in st.visited \/ neighbors[k] >= Len(h.Vectors) THEN st
            ELSE [pq |-> IF NodeDistance(h, query, neighbors[k]).err = ""
                         THEN HeapPush(st.pq,
                                  [ID |-> neighbors[k],
                                   Distance |-> NodeDistance(h, query, neighbors[k]).d])
                         ELSE st.pq,
                  visited |-> st.visited \cup {neighbors[k]}])

NeighborsOf(h, layer, id) ==
    IF id \in DOMAIN h.Graph[layer + 1] THEN h.Graph[layer + 1][id] ELSE <<>>

\* searchLayer, the loop "for candidates.Len() > 0"; popped is HeapPop of the
\* queue, its last element the item popped
RECURSIVE SearchLoop(_, _, _, _, _, _)
RECURSIVE SearchStep(_, _, _, _, _, _, _)
SearchStep(h, query, ef, layer, popped, visited, results) ==
    IF Len(results) >= ef THEN results
    ELSE SearchLoop(h, query, ef, layer,
            Explore(h, query, NeighborsOf(h, layer, popped[Len(popped)].ID), 1,
                    [pq |-> SubSeq(popped, 1, Len(popped) - 1), visited |-> visited]),
            Append(results, popped[Len(popped)]))

SearchLoop(h, query, ef, layer, st, results) ==
    IF st.pq = <<>> THEN results
    ELSE SearchStep(h, query, ef, layer, HeapPop(st.pq), st.visited, results)

searchLayer(h, query, ep, ef, layer) ==
    IF layer >= Len(h.Graph) THEN <<>>
    ELSE SearchLoop(h, query, ef, layer,
            [pq |-> <<[ID |-> ep, Distance |-> NodeDistance(h, query, ep).d]>>,
             visited |-> {ep}],
            <<>>)

\* connectNeighbors, one neighbour: the layer's map after both appends and the
\* pruning of the neighbour's list to m
ConnectOne(g, id, nb, m) ==
    Put(Put(g, id, Append(g[id], nb)),
        nb,
        LET list == Append(IF nb \in DOMAIN g THEN g[nb] ELSE <<>>, id)
        IN  IF Len(list) > m THEN SubSeq(list, 1, m) ELSE list)

RECURSIVE ConnectFrom(_, _, _, _, _)
ConnectFrom(g, id, selected, k, m) ==
    IF k > Len(selected) THEN g
    ELSE ConnectFrom(ConnectOne(g, id, selected[k].ID, m), id, selected, k + 1, m)

LayerM(h, layer) == IF layer = 0 THEN h.M * 2 ELSE h.M

connectNeighbors(h, id, candidates, layer) ==
    [h EXCEPT !.Graph[layer + 1] =
        ConnectFrom(@, id,
                    IF Len(candidates) > LayerM(h, layer)
                    THEN SubSeq(candidates, 1, LayerM(h, layer)) ELSE candidates,
                    1, LayerM(h, layer))]

\* Add, lines 65-68: the entry point after the layers above the node's layer
RECURSIVE Descend(_, _, _, _, _)
Descend(h, query, ep, l, layer) ==
    IF l <= layer THEN ep
    ELSE Descend(h, query, findClosestInLayer(h, query, ep, l), l - 1, layer)

\* Add, lines 70-76: the loop from the node's layer down to layer 0
RECURSIVE ConnectLayers(_, _, _, _, _)
RECURSIVE ConnectLayer(_, _, _, _, _, _)
ConnectLayer(h, id, vec, ep, l, candidates) ==
    ConnectLayers(connectNeighbors(h, id, candidates, l), id, vec,
                  IF Len(candidates) > 0 THEN candidates[1].ID ELSE ep, l - 1)

ConnectLayers(h, id, vec, ep, l) ==
    IF l < 0 THEN h
    ELSE ConnectLayer(h, id, vec, ep, l, searchLayer(h, vec, ep, h.EfConstruction, l))

\* Add, lines 38-56: the node in Vectors, RowIDs and the layers 0..layer
WithNode(h, vec, rowID, layer) ==
    [h EXCEPT !.Vectors = Append(@, vec),
              !.RowIDs = Append(@, rowID),
              !.Graph = [l \in 1..(IF Len(@) > layer + 1 THEN Len(@) ELSE layer + 1) |->
                           IF l > layer + 1 THEN @[l]
                           ELSE Put(IF l <= Len(@) THEN @[l] ELSE EmptyMap, Len(h.Vectors), <<>>)]]

\* Add with the layer randomLayer returned
Add(h, vec, rowID, layer) ==
    IF h.EntryPoint = 0 - 1
    THEN [WithNode(h, vec, rowID, layer) EXCEPT !.EntryPoint = Len(h.Vectors)]
    ELSE ConnectLayers(WithNode(h, vec, rowID, layer), Len(h.Vectors), vec,
                       Descend(WithNode(h, vec, rowID, layer), vec, h.EntryPoint,
                               Len(WithNode(h, vec, rowID, layer).Graph) - 1, layer),
                       layer)

\* Search, lines 97-105: the first k candidates as results
RECURSIVE FirstResults(_, _, _, _)
FirstResults(h, candidates, k, i) ==
    IF i > Len(candidates) \/ i > k THEN <<>>
    ELSE (IF candidates[i].ID < Len(h.RowIDs)
          THEN <<[Row |-> [x \in {"_row_id"} |-> IntV(h.RowIDs[candidates[i].ID + 1])],
                  Distance |-> candidates[i].Distance]>>
          ELSE <<>>)
         \o FirstResults(h, candidates, k, i + 1)

Search(h, query, k, ef) ==
    IF h.EntryPoint = 0 - 1 THEN <<>>
    ELSE FirstResults(h,
            searchLayer(h, query, Descend(h, query, h.EntryPoint, Len(h.Graph) - 1, 0), ef, 0),
            k, 1)

\* the layers randomLayer can return: with M >= 2 the first draw always passes
\* and each further one may; the model stops at MaxLayer
randomLayer(h) ==
    CASE h.M = 0 -> {0}
      [] h.M = 1 -> {h.MaxLayers}
      [] OTHER -> 1..Min(MaxLayer, h.MaxLayers)

(***************************************************************************)
(* Vector ORDER BY.  A VectorOrderBy is [Function, Column, QueryVector,    *)
(* Descending].                                                            *)
(***************************************************************************)
\* executeVectorSearch, lines 1445-1450: the rows of the index's results
Resolve(results, rows) ==
    [i \in 1..Len(results) |->
        IF results[i].Row["_row_id"].v[1] < Len(rows)
        THEN [results[i] EXCEPT !.Row = rows[results[i].Row["_row_id"].v[1] + 1]]
        ELSE results[i]]

\* lines 1462-1477: the result row; _distance holds the distance whose
\* "%.6f" text the code stores (two distances of the model's vectors that
\* differ do so within the first six decimals, so the texts differ as well)
ResultRow(columns, res) ==
    [k \in (IF \E i \in 1..Len(columns) : columns[i] = "*" THEN DOMAIN res.Row ELSE {})
           \cup ({columns[i] : i \in 1..Len(columns)} \ {"*"})
           \cup {"_distance"} |->
        IF k = "_distance" THEN res.Distance ELSE Get(res.Row, k)]

\* lines 1458-1477
SkipOffset(results, offset) ==
    IF offset > 0 /\ offset < Len(results)
    THEN SubSeq(results, offset + 1, Len(results)) ELSE results

\* lines 1427-1456; limit is stmt.Limit if positive, else len(rows)
SearchResults(stmt, rows, table, metric, limit) ==
    IF stmt.VectorOrderBy.Column \in DOMAIN table.VectorIndexes
    THEN Resolve(Search(table.VectorIndexes[stmt.VectorOrderBy.Column],
                        VecV(stmt.VectorOrderBy.QueryVector), limit,
                        IF limit * 2 < 50 THEN 50 ELSE limit * 2),
                 rows)
    ELSE VectorSearch(rows, VecV(stmt.VectorOrderBy.QueryVector),
                      stmt.VectorOrderBy.Column, metric, limit)

VectorRows(columns, results) ==
    [i \in 1..Len(results) |-> ResultRow(columns, results[i])]

executeVectorSearch(stmt, rows, table) ==
    IF stmt.VectorOrderBy.Function \notin {"COSINE_DISTANCE", "L2_DISTANCE"}
    THEN [err |-> "function", rows |-> <<>>]
    ELSE [err |-> "",
          rows |-> VectorRows(stmt.Columns,
                      SkipOffset(
                          SearchResults(stmt, rows, table,
                              IF stmt.VectorOrderBy.Function = "COSINE_DISTANCE"
                              THEN "COSINE" ELSE "L2",
                              IF stmt.Limit > 0 THEN stmt.Limit ELSE Len(rows)),
                          stmt.Offset))]

\* executeCreateIndex, lines 1530-1536: the rows from the i-th on added to the
\* index, layers[i] being the layer randomLayer returns for row i
RECURSIVE BuildIndex(_, _, _, _, _)
BuildIndex(index, rows, column, layers, i) ==
    IF i > Len(rows) THEN index
    ELSE BuildIndex(IF Get(rows[i], column).k = "vec"
                    THEN Add(index, rows[i][column], i - 1, layers[i]) ELSE index,
                    rows, column, layers, i + 1)

\* executeSelect, lines 774-825: OFFSET, LIMIT and the columns of joined rows
FinishSelect(tbls, stmt, rows) ==
    IF Len(stmt.Joins) > 0 /\ Len(ResultColumns(tbls, stmt)) > 0
    THEN [i \in 1..Len(ApplyOffsetLimit(rows, stmt.Offset, stmt.Limit)) |->
             Project(ApplyOffsetLimit(rows, stmt.Offset, stmt.Limit)[i],
                     ResultColumns(tbls, stmt))]
    ELSE ApplyOffsetLimit(rows, stmt.Offset, stmt.Limit)

\* executeSelect after the joins: [err, rows].  The statements of the model
\* carry no aggregate and no ORDER BY on a plain column.
AfterJoins(tbls, stmt, joined) ==
    IF joined.err # "" THEN joined
    ELSE IF stmt.VectorOrderBy # None
    THEN executeVectorSearch(stmt, joined.rows, tbls[stmt.TableName])
    ELSE [err |-> "", rows |-> FinishSelect(tbls, stmt, joined.rows)]

\* executeSelect after the table lookup: [err, rows]
SelectRows(tbls, stmt) ==
    AfterJoins(tbls, stmt,
        IF Len(stmt.Joins) > 0
        THEN executeJoins(tbls, stmt.TableName,
                 TableSelect(tbls[stmt.TableName], <<"*">>, convertWhereClause(stmt.Where)),
                 stmt.Joins, 1)
        ELSE [err |-> "",
              rows |-> TableSelect(tbls[stmt.TableName], <<"*">>,
                                   convertWhereClause(stmt.Where))])

ExecuteSelect(stmt) ==
    /\ Serving
    /\ UNCHANGED svars
    /\ IF stmt.TableName \notin DOMAIN tables THEN NoTable("select", stmt)
       ELSE /\ result' = Res("select", SelectRows(tables, stmt).err = "", stmt,
                             SelectRows(tables, stmt).rows)
            /\ UNCHANGED <<tables, files>>

ExecuteUpdate(stmt) ==
    /\ Serving
    /\ UNCHANGED svars
    /\ IF stmt.TableName \notin DOMAIN tables THEN NoTable("update", stmt.Where)
       ELSE LET t == TableUpdate(tables[stmt.TableName], stmt.Updates,
                                 convertWhereClause(stmt.Where)) IN
            /\ tables' = Put(tables, stmt.TableName, t)
            /\ files' = Put(files, stmt.TableName, SaveTableBinary(t))
            /\ result' = Res("update", TRUE, stmt.Where, <<>>)

ExecuteDelete(stmt) ==
    /\ Serving
    /\ UNCHANGED svars
    /\ IF stmt.TableName \notin DOMAIN tables THEN NoTable("delete", stmt.Where)
       ELSE LET t == TableDelete(tables[stmt.TableName], convertWhereClause(stmt.Where)) IN
            /\ tables' = Put(tables, stmt.TableName, t)
            /\ files' = Put(files, stmt.TableName, SaveTableBinary(t))
            /\ result' = Res("delete", TRUE, stmt.Where, <<>>)

ExecuteTruncate(stmt) ==
    /\ Serving
    /\ UNCHANGED svars
    /\ IF stmt.TableName \notin DOMAIN tables THEN NoTable("truncate", None)
       ELSE LET t == TableTruncate(tables[stmt.TableName]) IN
            /\ tables' = Put(tables, stmt.TableName, t)
            /\ files' = Put(files, stmt.TableName, SaveTableBinary(t))
            /\ result' = Res("truncate", TRUE, None, <<>>)

ExecuteAlterTable(stmt) ==
    /\ Serving
    /\ UNCHANGED svars
    /\ IF stmt.TableName \notin DOMAIN tables THEN NoTable("alter", stmt.Column.Name)
       ELSE LET res == TableAddColumn(tables[stmt.TableName],
                           Col(stmt.Column.Name, stmt.Column.Type, 0, stmt.Column.Nullable,
                               FALSE, <<>>)) IN
            /\ tables' = Put(tables, stmt.TableName, res.table)
            /\ files' = IF res.err # "" THEN files
                        ELSE Put(files, stmt.TableName, SaveTableBinary(res.table))
            /\ result' = Res("alter", res.err = "", stmt.Column.Name, <<>>)

\* stmt.Options[key] of a map[string]int
Option(stmt, key) == IF key \in DOMAIN stmt.Options THEN stmt.Options[key] ELSE 0

\* executeCreateIndex; layers are the results of randomLayer, row by row.
\* The index lives in memory only: the handler does not save the table.
ExecuteCreateIndex(stmt, layers) ==
    /\ Serving
    /\ UNCHANGED svars
    /\ IF stmt.TableName \notin DOMAIN tables THEN NoTable("index", stmt)
       ELSE IF \/ FindColumn(tables[stmt.TableName].Columns, stmt.ColumnName) = ZeroColumn
               \/ stmt.IndexType # "HNSW"
               \/ FindColumn(tables[stmt.TableName].Columns, stmt.ColumnName).Type # "VECTOR"
       THEN NoTable("index", stmt)
       ELSE /\ \A i \in DOMAIN layers :
                  layers[i] \in randomLayer(NewHNSWIndex(Option(stmt, "m"),
                                              Option(stmt, "ef_construction"), "COSINE"))
            /\ tables' = [tables EXCEPT ![stmt.TableName].VectorIndexes =
                             Put(@, stmt.ColumnName,
                                 BuildIndex(NewHNSWIndex(Option(stmt, "m"),
                                                Option(stmt, "ef_construction"),
                                                "COSINE"),
                                            tables[stmt.TableName].Rows, stmt.ColumnName,
                                            layers, 1))]
            /\ files' = files
            /\ result' = Res("index", TRUE, stmt, <<>>)

CreateTableOf(schemas) ==
    \E cols \in schemas : ExecuteCreateTable(CreateStmt(cols)) /\ UNCHANGED inserted
InsertOf(stmts, maxSlots) ==
    \E stmt \in stmts : ExecuteInsert(stmt, maxSlots) /\ UNCHANGED inserted
SelectOf(wheres) ==
    \E w \in wheres :
        /\ ExecuteSelect(SelectStmt("t", w))
        /\ UNCHANGED inserted
UpdateOf(wheres, sets) ==
    \E w \in wheres, u \in sets :
        /\ ExecuteUpdate([TableName |-> "t", Updates |-> u, Where |-> w])
        /\ UNCHANGED inserted
DeleteOf(wheres) ==
    \E w \in wheres :
        ExecuteDelete([TableName |-> "t", Where |-> w]) /\ UNCHANGED inserted
Truncate == ExecuteTruncate([TableName |-> "t"]) /\ UNCHANGED inserted
AlterTableOf(cols) ==
    \E c \in cols :
        /\ ExecuteAlterTable([TableName |-> "t", Action |-> "ADD_COLUMN", Column |-> c])
        /\ UNCHANGED inserted

\* the data directory before the first start
SInit ==
    /\ tables = EmptyMap
    /\ files = EmptyMap
    /\ result = Res("none", TRUE, None, <<>>)
    /\ inserted = <<>>
    /\ lockFile = NoLock
    /\ dataDirs = {}
    /\ srv = [p \in Procs |-> Down]
    /\ mu = 0
    /\ calls = [g \in Goroutines |-> Idle]

\* process 1 has initialised on a fresh data directory
TInit ==
    /\ tables = EmptyMap
    /\ files = EmptyMap
    /\ result = Res("none", TRUE, None, <<>>)
    /\ inserted = <<>>
    /\ lockFile = acquireLock(NoLock, 1).lock
    /\ dataDirs = {"ghostsql"}
    /\ srv = [p \in Procs |->
                IF p = 1 THEN CreateDatabaseIn(LoadAllDatabases({}), "ghostsql").db ELSE Down]
    /\ mu = 0
    /\ calls = [g \in Goroutines |-> Idle]

(***************************************************************************)
(* Spec: every statement kind on a table with a primary key.               *)
(***************************************************************************)
Schemas == {<<cId, cBody>>, <<cId, cDup>>}

InsertStmts ==
    {InsertStmt(<<>>, <<<<IntV(1), Nil>>>>),
     InsertStmt(<<>>, <<<<IntV(2), sAbc>>>>),
     InsertStmt(<<"id", "zzz">>, <<<<IntV(1), IntV(1)>>>>)}

Wheres == {None, Leaf("id", "=", IntV(1)), wAnd, wOr}

UpdateSets == {[val |-> sAbc], [zzz |-> IntV(1)]}

CreateTable == CreateTableOf(Schemas)
Insert == InsertOf(InsertStmts, MaxSlots)
Select == SelectOf(Wheres)
Update == UpdateOf(Wheres, UpdateSets)
Delete == DeleteOf(Wheres)
AlterTable == AlterTableOf({cExtra, cBody})

Next ==
    \/ CreateTable
    \/ Insert
    \/ Select
    \/ Update
    \/ Delete
    \/ Truncate
    \/ AlterTable

Spec == TInit /\ [][Next]_vars

(***************************************************************************)
(* SpecDML: INSERT, SELECT, UPDATE, DELETE and TRUNCATE, each with its     *)
(* save, on a table whose statements name columns of the schema only.      *)
(***************************************************************************)
CreateTableDML == CreateTableOf({<<cId, cBody>>})
InsertDML ==
    InsertOf({InsertStmt(<<>>, <<<<IntV(1), Nil>>>>),
              InsertStmt(<<>>, <<<<IntV(2), sAbc>>>>)}, MaxSlots)
UpdateDML == UpdateOf(Wheres, {[val |-> sAbc]})

NextDML ==
    \/ CreateTableDML
    \/ InsertDML
    \/ Select
    \/ UpdateDML
    \/ Delete
    \/ Truncate

SpecDML == TInit /\ [][NextDML]_vars

(***************************************************************************)
(* Properties of the statement executor.                                   *)
(***************************************************************************)
\* the rows a loaded table holds for the in-memory rows: each row through
\* EncodeRow and DecodeRow with the table's columns
Stored(columns, rows) ==
    [i \in 1..Len(rows) |->
        LET enc == EncodeRow(columns, rows[i]) IN
        DecodeRow(columns, [data |-> enc.data, length |-> DataLen(enc.data)]).row]

\* C1: after every INSERT, UPDATE, DELETE and TRUNCATE with its save, loading
\* the table file yields exactly the rows in memory, in the same order.
C1_FileHoldsMemoryRows ==
    \A n \in DOMAIN tables :
        /\ n \in DOMAIN files
        /\ LoadTableBinary(files[n]).err = ""
        /\ LoadTableBinary(files[n]).table.Rows = Stored(tables[n].Columns, tables[n].Rows)

\* what the WHERE clause of the statement selects: the leaf condition, AND the
\* child's condition if there is an And child, OR it if there is an Or child
RECURSIVE ClauseHolds(_, _)
ClauseHolds(row, where) ==
    LET leaf == evaluateWhere(row, convertWhereClause(where)) IN
    IF where.And # None THEN leaf /\ ClauseHolds(row, where.And)
    ELSE IF where.Or # None THEN leaf \/ ClauseHolds(row, where.Or)
    ELSE leaf

\* C4: a SELECT whose WHERE clause has an AND or OR child returns exactly the
\* rows for which both conditions hold, respectively at least one holds.
C4_SelectAndOr ==
    (/\ result.op = "select" /\ result.ok
     /\ result.arg.Where # None
     /\ (result.arg.Where.And # None \/ result.arg.Where.Or # None))
    => LET Holds(row) == ClauseHolds(row, result.arg.Where)
       IN  result.rows = SelectSeq(tables["t"].Rows, Holds)

\* C6: CREATE TABLE with the name of an existing table fails and leaves the
\* existing table's schema, rows and file as they were.
C6_CreateExistingFails ==
    [][(result'.op = "create" /\ "t" \in DOMAIN tables)
       => (~result'.ok /\ tables' = tables /\ files' = files)]_vars

\* C7: no table has two columns of the same name, and ALTER TABLE ADD COLUMN
\* with an existing column's name fails and changes neither schema nor rows.
C7_ColumnNamesDistinct ==
    /\ [](\A n \in DOMAIN tables :
             \A i, j \in 1..Len(tables[n].Columns) :
                 i # j => tables[n].Columns[i].Name # tables[n].Columns[j].Name)
    /\ [][(/\ result'.op = "alter"
           /\ "t" \in DOMAIN tables
           /\ result'.arg \in ColumnNameSet(tables["t"].Columns))
          => (~result'.ok /\ tables' = tables)]_vars

\* C8: every key of every in-memory row is a column name of its table.
C8_RowKeysAreColumns ==
    \A n \in DOMAIN tables :
        \A i \in 1..Len(tables[n].Rows) :
            DOMAIN tables[n].Rows[i] \subseteq ColumnNameSet(tables[n].Columns)

(***************************************************************************)
(* SpecInsert: single-row INSERTs that fail for each of the reasons        *)
(* executeInsert and Table.Insert know.                                    *)
(***************************************************************************)
sHuge == StrV(<<>>, PageSize)         \* PageSize bytes: fits in no page

InsertSchemas == {<<cId, cBody>>, <<cId, cName>>, <<cId, cRef>>, <<cId, cVec>>}

SingleRowStmts ==
    {InsertStmt(<<>>, <<<<IntV(1), Nil>>>>),
     InsertStmt(<<>>, <<<<IntV(1), sAbc>>>>),
     InsertStmt(<<>>, <<<<IntV(2), IntV(1)>>>>),
     InsertStmt(<<>>, <<<<IntV(2), sHuge>>>>),
     InsertStmt(<<>>, <<<<Nil, Nil>>>>),
     InsertStmt(<<>>, <<<<IntV(2)>>>>),
     InsertStmt(<<"val">>, <<<<Nil>>>>)}

CreateTableForInsert == CreateTableOf(InsertSchemas)
InsertSingleRow == InsertOf(SingleRowStmts, MaxSlots)

NextInsert ==
    \/ CreateTableForInsert
    \/ InsertSingleRow

SpecInsert == TInit /\ [][NextInsert]_vars

\* C2: a single-row INSERT that fails leaves the table's rows and page list
\* as they were and does not rewrite the table file.
C2_FailedInsertChangesNothing ==
    [][(result'.op = "insert" /\ ~result'.ok /\ Len(result'.arg.Values) = 1)
       => (tables' = tables /\ files' = files)]_vars

(***************************************************************************)
(* SpecPages: rows of different sizes, SELECT *, shutdown and restart.     *)
(***************************************************************************)
sBig == StrV(<<>>, 10000)             \* two of these do not share a page
sMid == StrV(<<>>, 6000)              \* shares a page with one sBig

SizedStmts ==
    {InsertStmt(<<>>, <<<<sAbc>>>>), InsertStmt(<<>>, <<<<sMid>>>>),
     InsertStmt(<<>>, <<<<sBig>>>>)}

CreateTableLogged ==
    /\ ExecuteCreateTable(CreateStmt(<<cBody>>))
    /\ inserted' = <<>>

InsertLogged ==
    \E stmt \in SizedStmts :
        /\ ExecuteInsert(stmt, MaxSizedSlots)
        /\ inserted' = IF result'.ok
                       THEN inserted \o [i \in 1..Len(stmt.Values) |->
                                            BuildRow(<<cBody>>, <<"val">>, stmt.Values[i]).row]
                       ELSE inserted

SelectAll == SelectOf({None})
Stop == Shutdown(1) /\ UNCHANGED inserted
Start == Initialize(1) /\ UNCHANGED inserted

NextPages ==
    \/ CreateTableLogged
    \/ InsertLogged
    \/ SelectAll
    \/ Stop
    \/ Start

SpecPages == TInit /\ [][NextPages]_vars

\* C5: SELECT * without ORDER BY returns the rows in the order in which they
\* were inserted, whatever their sizes, also after the table was saved and
\* loaded again and also when the rows span several pages.
C5_SelectInInsertionOrder ==
    (result.op = "select" /\ result.ok /\ result.arg.Where = None)
    => Stored(<<cBody>>, result.rows) = Stored(<<cBody>>, inserted)

(***************************************************************************)
(* SpecPk: INSERT and DELETE on tables with a primary key.                 *)
(***************************************************************************)
PkSchemas == {<<cId, cBody>>, <<cOptId, cKey>>, <<cId, cDup>>}

PkStmts ==
    {InsertStmt(<<>>, <<<<a, b>>>>) : a \in {Nil, IntV(1), IntV(2), sOne}, b \in {Nil, sOne}}
    \cup {InsertStmt(<<"val">>, <<<<sOne>>>>),
          InsertStmt(<<"id">>, <<<<IntV(1)>>>>),
          InsertStmt(<<>>, <<<<IntV(1), sAbc>>, <<IntV(1), sOne>>>>)}

PkWheres == {None, Leaf("id", "=", IntV(1))}

CreateTablePk == CreateTableOf(PkSchemas)
InsertPk == InsertOf(PkStmts, MaxSlots)
DeletePk == DeleteOf(PkWheres)

NextPk ==
    \/ CreateTablePk
    \/ InsertPk
    \/ DeletePk

SpecPk == TInit /\ [][NextPk]_vars

PrimaryNames(t) == {t.Columns[i].Name : i \in {j \in 1..Len(t.Columns) : t.Columns[j].IsPrimary}}

\* the first value tuple of the statement gives a row whose value in a primary
\* key column is null or equal to the value an existing row holds there
BreaksPrimaryKey(t, stmt) ==
    LET names == IF Len(stmt.Columns) = 0 THEN GetColumnNames(t) ELSE stmt.Columns
        built == BuildRow(t.Columns, names, stmt.Values[1])
    IN  /\ built.err = ""
        /\ \E c \in PrimaryNames(t) :
              \/ Get(built.row, c) = Nil
              \/ \E r \in 1..Len(t.Rows) : Get(t.Rows[r], c) = Get(built.row, c)

\* C3: after any sequence of INSERT and DELETE statements on a table with a
\* primary key column, no two rows hold equal values in that column and no row
\* holds null in it; an INSERT that would break this fails and adds no row.
C3_PrimaryKeyUnique ==
    /\ [](\A n \in DOMAIN tables : \A c \in PrimaryNames(tables[n]) :
             \A i \in 1..Len(tables[n].Rows) :
                 /\ Get(tables[n].Rows[i], c) # Nil
                 /\ \A j \in 1..Len(tables[n].Rows) :
                       i # j => Get(tables[n].Rows[i], c) # Get(tables[n].Rows[j], c))
    /\ [][(/\ result'.op = "insert"
           /\ "t" \in DOMAIN tables
           /\ BreaksPrimaryKey(tables["t"], result'.arg))
          => (~result'.ok /\ tables' = tables)]_vars

\* an INSERT with the primary key value of an existing row was refused while
\* the table held two rows
C3_DuplicateRefused ==
    /\ result.op = "insert" /\ ~result.ok
    /\ "t" \in DOMAIN tables
    /\ Len(tables["t"].Rows) = 2
    /\ Get(tables["t"].Rows[1], "id") # Nil
    /\ BreaksPrimaryKey(tables["t"], result.arg)

(***************************************************************************)
(* SpecServer: two processes on one data directory; start, shutdown,       *)
(* crash, and the database statements.                                     *)
(***************************************************************************)
Start12 == \E p \in Procs : Initialize(p) /\ UNCHANGED inserted
Stop12 == \E p \in Procs : Shutdown(p) /\ UNCHANGED inserted
Crash12 == \E p \in Procs : Crash(p) /\ UNCHANGED inserted
Unlock == RemoveLock /\ UNCHANGED inserted
CreateDatabase ==
    \E p \in Procs, dbName \in DbNames :
        ExecuteCreateDatabase(p, dbName) /\ UNCHANGED inserted
UseDatabase ==
    \E p \in Procs, dbName \in DbNames :
        ExecuteUseDatabase(p, dbName) /\ UNCHANGED inserted
DropDatabase ==
    \E p \in Procs, dbName \in DbNames :
        ExecuteDropDatabase(p, dbName) /\ UNCHANGED inserted

NextServer ==
    \/ Start12
    \/ Stop12
    \/ Crash12
    \/ Unlock
    \/ CreateDatabase
    \/ UseDatabase
    \/ DropDatabase

SpecServer == SInit /\ [][NextServer]_vars

Running == {p \in Procs : srv[p].up}

\* C9: in a running instance the current database is always one of the
\* databases map; DROP DATABASE of the current database and USE of an unknown
\* database fail and change neither the current database nor the map.
C9_CurrentDatabaseExists ==
    /\ [](\A p \in Running : srv[p].CurrentDatabase \in srv[p].Databases)
    /\ [][\A p \in Running :
            (\/ result'.op = "dropdb" /\ result'.arg = srv[p].CurrentDatabase
             \/ result'.op = "use" /\ result'.arg \notin srv[p].Databases)
            => (~result'.ok /\ srv' = srv /\ dataDirs' = dataDirs)]_vars

\* DROP DATABASE of the current database was refused while the map held
\* another database as well
C9_DropCurrentRefused ==
    /\ result.op = "dropdb" /\ ~result.ok
    /\ \E p \in Running :
          /\ result.arg = srv[p].CurrentDatabase
          /\ Cardinality(srv[p].Databases) >= 2

\* C10: at most one instance owns the data directory: while the lock file is
\* there every Initialize fails, whether its owner runs or has crashed;
\* Shutdown removes the lock file and Initialize without a lock file succeeds
\* and creates it; a crash leaves the lock file.
C10_OneOwner ==
    /\ [](Cardinality(Running) <= 1 /\ \A p \in Running : lockFile = <<p>>)
    /\ [][/\ (result'.op = "initialize" /\ lockFile # NoLock)
             => (~result'.ok /\ srv' = srv /\ lockFile' = lockFile)
          /\ (result'.op = "initialize" /\ lockFile = NoLock)
             => (result'.ok /\ srv'[result'.arg].up /\ lockFile' = <<result'.arg>>)
          /\ result'.op = "shutdown" => lockFile' = NoLock
          /\ result'.op = "crash" => (lockFile' = lockFile /\ lockFile # NoLock)]_vars

\* after a crash of the other process, Initialize failed on its lock file
C10_StaleLockRefuses ==
    /\ result.op = "initialize" /\ ~result.ok
    /\ Running = {}
    /\ lockFile # NoLock /\ lockFile # <<result.arg>>

(***************************************************************************)
(* SpecJoin: two tables with a nullable column each, and SELECTs with one  *)
(* JOIN of every type between them.                                        *)
(***************************************************************************)
JoinCond(l, op, r) == [LeftColumn |-> l, Operator |-> op, RightColumn |-> r]
Join(type, table, cond) == [Type |-> type, Table |-> table, Condition |-> cond]
JoinStmt(name, where, joins) == [SelectStmt(name, where) EXCEPT !.Joins = joins]

cNum == Col("n", "INT", 0, TRUE, FALSE, <<>>)

JoinConds == {JoinCond("id", "=", "n"), JoinCond("id", "<", "n")}

CreateTableJoin ==
    \/ ExecuteCreateTable([CreateStmt(<<cOptId>>) EXCEPT !.TableName = "t"])
          /\ UNCHANGED inserted
    \/ ExecuteCreateTable([CreateStmt(<<cNum>>) EXCEPT !.TableName = "u"])
          /\ UNCHANGED inserted

InsertJoin ==
    \E stmt \in {InsertStmt(<<>>, <<<<v>>>>) : v \in {Nil, IntV(1), IntV(2)}}
               \cup {[InsertStmt(<<>>, <<<<v>>>>) EXCEPT !.TableName = "u"] :
                        v \in {Nil, IntV(2)}} :
        /\ ExecuteInsert(stmt, MaxSlots)
        /\ UNCHANGED inserted

SelectJoin ==
    \E stmt \in {JoinStmt("t", None, <<Join(type, "u", cond)>>) :
                    type \in JoinTypes, cond \in JoinConds}
               \cup {JoinStmt("t", Leaf("id", "=", IntV(1)),
                              <<Join("FULL", "u", JoinCond("id", "<", "n"))>>)} :
        /\ ExecuteSelect(stmt)
        /\ UNCHANGED inserted

NextJoin ==
    \/ CreateTableJoin
    \/ InsertJoin
    \/ SelectJoin

SpecJoin == TInit /\ [][NextJoin]_vars

RECURSIVE Flatten(_)
Flatten(seqs) == IF seqs = <<>> THEN <<>> ELSE Head(seqs) \o Flatten(Tail(seqs))

\* l and r satisfy the join condition: both values are there and not null and
\* stand in the relation the operator names
Satisfy(l, r, cond) ==
    /\ cond.LeftColumn \in DOMAIN l /\ l[cond.LeftColumn] # Nil
    /\ cond.RightColumn \in DOMAIN r /\ r[cond.RightColumn] # Nil
    /\ LET a == l[cond.LeftColumn].v[1]
           b == r[cond.RightColumn].v[1]
       IN  (cond.Operator = "=" /\ a = b) \/ (cond.Operator = "<" /\ a < b)

\* the row of the pair (l, r): l's columns under "t.", r's under "u."
PairRow(l, r) ==
    [k \in {"t." \o c : c \in DOMAIN l} \cup {"u." \o c : c \in DOMAIN r} |->
        IF \E c \in DOMAIN l : k = "t." \o c
        THEN l[CHOOSE c \in DOMAIN l : k = "t." \o c]
        ELSE r[CHOOSE c \in DOMAIN r : k = "u." \o c]]
LeftOnly(l) == [k \in {"t." \o c : c \in DOMAIN l} |-> l[CHOOSE c \in DOMAIN l : k = "t." \o c]]
RightOnly(r) == [k \in {"u." \o c : c \in DOMAIN r} |-> r[CHOOSE c \in DOMAIN r : k = "u." \o c]]

\* the rows of the pairs of l, in the order of R
PairsOfLeft(l, R, cond) ==
    LET js == SelectSeq([j \in 1..Len(R) |-> j], LAMBDA j : Satisfy(l, R[j], cond))
    IN  [n \in 1..Len(js) |-> PairRow(l, R[js[n]])]
PairsOfRight(L, r, cond) ==
    LET is == SelectSeq([i \in 1..Len(L) |-> i], LAMBDA i : Satisfy(L[i], r, cond))
    IN  [n \in 1..Len(is) |-> PairRow(L[is[n]], r)]

\* what a single JOIN of the given type returns for the rows L and R
JoinResult(type, L, R, cond) ==
    LET left == Flatten([i \in 1..Len(L) |->
                    IF PairsOfLeft(L[i], R, cond) = <<>> THEN <<LeftOnly(L[i])>>
                    ELSE PairsOfLeft(L[i], R, cond)])
        lonely == SelectSeq(R, LAMBDA r : \A i \in 1..Len(L) : ~Satisfy(L[i], r, cond))
    IN  CASE type = "INNER" -> Flatten([i \in 1..Len(L) |-> PairsOfLeft(L[i], R, cond)])
          [] type = "LEFT" -> left
          [] type = "RIGHT" ->
               Flatten([j \in 1..Len(R) |->
                    IF PairsOfRight(L, R[j], cond) = <<>> THEN <<RightOnly(R[j])>>
                    ELSE PairsOfRight(L, R[j], cond)])
          [] type = "FULL" -> left \o [n \in 1..Len(lonely) |-> RightOnly(lonely[n])]
          [] type = "CROSS" ->
               Flatten([i \in 1..Len(L) |-> [j \in 1..Len(R) |-> PairRow(L[i], R[j])]])

\* C11: a SELECT with one JOIN returns: INNER, exactly the pairs (l, r) that
\* satisfy the condition, l-major; LEFT, those and each unmatched l once
\* without right columns; RIGHT, for each r its matches, and each unmatched r
\* once without left columns; FULL, the LEFT result and then each unmatched r
\* once; CROSS, all pairs.  A null on either side never satisfies the condition.
C11_SingleJoin ==
    (/\ result.op = "select" /\ result.ok
     /\ Len(result.arg.Joins) = 1
     /\ "u" \in DOMAIN tables)
    => LET stmt == result.arg
           L == SelectSeq(tables["t"].Rows,
                          LAMBDA row : stmt.Where = None
                                       \/ evaluateWhere(row, convertWhereClause(stmt.Where)))
       IN  result.rows = JoinResult(stmt.Joins[1].Type, L, tables["u"].Rows,
                                    stmt.Joins[1].Condition)

\* a LEFT JOIN returned a matched pair and an unmatched left row, while the
\* right table held a null
C11_LeftJoinWithUnmatched ==
    /\ result.op = "select" /\ result.ok
    /\ Len(result.arg.Joins) = 1 /\ result.arg.Joins[1].Type = "LEFT"
    /\ result.arg.Where = None
    /\ "u" \in DOMAIN tables
    /\ Len(tables["t"].Rows) = 2 /\ Len(tables["u"].Rows) = 2
    /\ \E i \in 1..2 : tables["u"].Rows[i]["n"] = Nil
    /\ \E i \in 1..Len(result.rows) : DOMAIN result.rows[i] = {"t.id"}
    /\ \E i \in 1..Len(result.rows) : DOMAIN result.rows[i] = {"t.id", "u.n"}

(***************************************************************************)
(* SpecChain: three tables and SELECTs with two INNER JOINs, the second    *)
(* join's condition naming the middle table's column with and without its  *)
(* table prefix.                                                           *)
(***************************************************************************)
cM == Col("m", "INT", 0, TRUE, FALSE, <<>>)

ChainSchemas == [t |-> <<cOptId>>, u |-> <<cNum>>, w |-> <<cM>>]

ChainStmts ==
    {JoinStmt("t", None, <<Join("INNER", "u", JoinCond("id", "=", "n")),
                           Join("INNER", "w", JoinCond(left, "=", "m"))>>) :
        left \in {"n", "u.n"}}

CreateTableChain ==
    \E name \in DOMAIN ChainSchemas :
        /\ ExecuteCreateTable([CreateStmt(ChainSchemas[name]) EXCEPT !.TableName = name])
        /\ UNCHANGED inserted

InsertChain ==
    \E name \in DOMAIN ChainSchemas, v \in {IntV(1), IntV(2)} :
        /\ ExecuteInsert([InsertStmt(<<>>, <<<<v>>>>) EXCEPT !.TableName = name], MaxSlots)
        /\ UNCHANGED inserted

SelectChain ==
    \E stmt \in ChainStmts : ExecuteSelect(stmt) /\ UNCHANGED inserted

NextChain ==
    \/ CreateTableChain
    \/ InsertChain
    \/ SelectChain

SpecChain == TInit /\ [][NextChain]_vars

\* the combinations (l, r, s) of rows of t, u and w with l.id = r.n and
\* r.n = s.m, l-major, as rows with the keys t.id, u.n and w.m
ChainResult(L, R, S) ==
    Flatten([i \in 1..Len(L) |->
        Flatten([j \in 1..Len(R) |->
            IF L[i]["id"] # R[j]["n"] THEN <<>>
            ELSE LET ks == SelectSeq([k \in 1..Len(S) |-> k],
                                     LAMBDA k : R[j]["n"] = S[k]["m"])
                 IN  [x \in 1..Len(ks) |->
                        [c \in {"t.id", "u.n", "w.m"} |->
                            IF c = "t.id" THEN L[i]["id"]
                            ELSE IF c = "u.n" THEN R[j]["n"] ELSE S[ks[x]]["m"]]]])])

\* C12: in a SELECT with two JOINs every key of a merged row is table.column
\* with exactly one table prefix, and a chain of INNER JOINs returns every
\* combination of rows that satisfies both join conditions, the second one
\* evaluated on the values of the columns it names.
C12_ChainedInnerJoins ==
    (/\ result.op = "select" /\ result.ok
     /\ Len(result.arg.Joins) = 2
     /\ {"t", "u", "w"} \subseteq DOMAIN tables)
    => /\ \A i \in 1..Len(result.rows) : DOMAIN result.rows[i] \subseteq {"t.id", "u.n", "w.m"}
       /\ result.rows = ChainResult(tables["t"].Rows, tables["u"].Rows, tables["w"].Rows)

(***************************************************************************)
(* SpecVarchar: INSERTs of strings and numbers into a VARCHAR(2) column.   *)
(***************************************************************************)
VarcharStmts ==
    {InsertStmt(<<>>, <<<<IntV(id), v>>>>) :
        id \in {1, 2}, v \in {Nil, sOne, sAbc, IntV(1), IntV(123)}}

CreateTableVarchar == CreateTableOf({<<cId, cName>>})
InsertVarchar == InsertOf(VarcharStmts, MaxSlots)

NextVarchar ==
    \/ CreateTableVarchar
    \/ InsertVarchar

SpecVarchar == TInit /\ [][NextVarchar]_vars

\* the VARCHAR columns of a table that declare a length
VarcharColumns(t) ==
    {i \in 1..Len(t.Columns) : t.Columns[i].Type = "VARCHAR" /\ t.Columns[i].Length > 0}

\* C13: every non-null value stored for a VARCHAR(n) column, in the in-memory
\* row and as encoded in the page, has at most n bytes, whether the inserted
\* value was a string or a number.
C13_VarcharLength ==
    \A name \in DOMAIN tables : \A i \in VarcharColumns(tables[name]) :
        LET t == tables[name]
            col == t.Columns[i]
        IN  /\ \A r \in 1..Len(t.Rows) :
                  Present(t.Rows[r], col.Name)
                  => StrLen(Sprintv(t.Rows[r][col.Name])) <= col.Length
            /\ \A s \in 1..SlotCount(t) :
                  LET f == AllPageRows(t.Pages, 1)[s].data.fields[i]
                  IN  ~f.null => Len(f.v) + f.n <= col.Length

(***************************************************************************)
(* SpecDim: INSERTs of vector literals of one and two components into      *)
(* VECTOR columns that declare no dimension and the dimension 2.           *)
(***************************************************************************)
cVec2 == Col("val", "VECTOR", 2, TRUE, FALSE, <<>>)

\* the literal [a] and the literal [a,b]
Lit1(a) == StrV(<<91, 48 + a, 93>>, 0)
Lit2(a, b) == StrV(<<91, 48 + a, 44, 48 + b, 93>>, 0)

DimStmts ==
    {InsertStmt(<<>>, <<<<IntV(id), v>>>>) :
        id \in {1, 2}, v \in {Nil, Lit1(1), Lit2(1, 2), Lit2(3, 4), sAbc}}

CreateTableDim == CreateTableOf({<<cId, cVec>>, <<cId, cVec2>>})
InsertDim == InsertOf(DimStmts, MaxSlots)

NextDim ==
    \/ CreateTableDim
    \/ InsertDim

SpecDim == TInit /\ [][NextDim]_vars

\* the vectors the rows of t hold in column name
VectorsOf(t, name) ==
    {t.Rows[r][name] : r \in {x \in 1..Len(t.Rows) : Present(t.Rows[x], name)}}

\* C14: all vectors stored in a VECTOR column have the same dimension, the
\* declared n if n > 0; an INSERT of a vector of another dimension fails and
\* stores nothing.
C14_OneDimension ==
    \A name \in DOMAIN tables : \A i \in 1..Len(tables[name].Columns) :
        LET col == tables[name].Columns[i] IN
        col.Type = "VECTOR" =>
            \A a, b \in VectorsOf(tables[name], col.Name) :
                /\ Len(a.v) = Len(b.v)
                /\ col.Length > 0 => Len(a.v) = col.Length

(***************************************************************************)
(* SpecCodec: EncodeRow and DecodeRow on rows that match their schema.     *)
(* inserted holds the input <<columns, row>>.                              *)
(***************************************************************************)
CodecSchemas == {<<cOptId, cBody>>, <<cOptId, cName>>, <<cOptId, cVec>>}

\* the values of a column's type, null included
ValuesOfType(col) ==
    {Nil} \cup (CASE col.Type = "INT" -> {IntV(1), IntV(0 - 2)}
                  [] col.Type = "TEXT" -> {sAbc, StrV(<<>>, 0)}
                  [] col.Type = "VARCHAR" -> {sOne, StrV(<<>>, 0)}
                  [] col.Type = "VECTOR" -> {VecV(<<1, 2>>), VecV(<<>>)})

\* the rows over two columns: each column omitted or holding a value of its type
RowsOf(columns) ==
    {[c \in {columns[1].Name} |-> a] : a \in ValuesOfType(columns[1])}
    \cup {[c \in {columns[2].Name} |-> b] : b \in ValuesOfType(columns[2])}
    \cup {[c \in {columns[1].Name, columns[2].Name} |->
              IF c = columns[1].Name THEN a ELSE b] :
            a \in ValuesOfType(columns[1]), b \in ValuesOfType(columns[2])}
    \cup {EmptyMap}

CodecInit ==
    /\ tables = EmptyMap
    /\ files = EmptyMap
    /\ result = Res("none", TRUE, None, <<>>)
    /\ \E columns \in CodecSchemas : \E row \in RowsOf(columns) :
          inserted = <<columns, row>>
    /\ lockFile = NoLock
    /\ dataDirs = {}
    /\ srv = [p \in Procs |-> Down]
    /\ mu = 0
    /\ calls = [g \in Goroutines |-> Idle]

Encode ==
    /\ result.op = "none"
    /\ result' = Res("encode", EncodeRow(inserted[1], inserted[2]).err = "", None,
                     EncodeRow(inserted[1], inserted[2]).data)
    /\ UNCHANGED <<tables, files, inserted, svars>>

Decode ==
    /\ result.op = "encode" /\ result.ok
    /\ result' = Res("decode",
                     DecodeRow(inserted[1],
                               [data |-> result.rows, length |-> DataLen(result.rows)]).err = "",
                     None,
                     DecodeRow(inserted[1],
                               [data |-> result.rows, length |-> DataLen(result.rows)]).row)
    /\ UNCHANGED <<tables, files, inserted, svars>>

NextCodec ==
    \/ Encode
    \/ Decode

SpecCodec == CodecInit /\ [][NextCodec]_vars

\* C15: for a row whose values have the types of the schema's columns, nulls
\* and omitted nullable columns included, EncodeRow succeeds and DecodeRow of
\* its bytes succeeds and returns a row equal to the row encoded.
C15_RoundTrip ==
    /\ result.op = "encode" => result.ok
    /\ result.op = "decode" => (result.ok /\ result.rows = inserted[2])

(***************************************************************************)
(* SpecVector: a table with a VECTOR column without index, and SELECTs     *)
(* ordered by a distance to [1,0], with LIMIT, OFFSET and DESC.            *)
(***************************************************************************)
VectorStmt(function, query, descending, limit, offset) ==
    [SelectStmt("t", None) EXCEPT
        !.VectorOrderBy = [Function |-> function, Column |-> "val",
                           QueryVector |-> query, Descending |-> descending],
        !.Limit = limit, !.Offset = offset]

DistanceFunctions == {"COSINE_DISTANCE", "L2_DISTANCE"}

VectorInserts ==
    {InsertStmt(<<>>, <<<<v>>>>) : v \in {Nil, Lit2(1, 0), Lit2(0, 1), Lit2(1, 1)}}

CreateTableVector == CreateTableOf({<<cVec>>})
InsertVector == InsertOf(VectorInserts, MaxSlots)
SelectVector ==
    \E function \in DistanceFunctions, descending \in BOOLEAN,
       limit \in 0..MaxSlots, offset \in 0..1 :
        /\ ExecuteSelect(VectorStmt(function, <<1, 0>>, descending, limit, offset))
        /\ UNCHANGED inserted

NextVector ==
    \/ CreateTableVector
    \/ InsertVector
    \/ SelectVector

SpecVector == TInit /\ [][NextVector]_vars

\* the distance the statement's function gives between its query vector and
\* the vector of the row
QueryDistance(stmt, row) ==
    CalculateDistance(VecV(stmt.VectorOrderBy.QueryVector), row[stmt.VectorOrderBy.Column],
                      IF stmt.VectorOrderBy.Function = "COSINE_DISTANCE"
                      THEN "COSINE" ELSE "L2").d

\* the rows of table t that hold a vector in the statement's column
Ranked(stmt) ==
    {r \in 1..Len(tables["t"].Rows) :
        Present(tables["t"].Rows[r], stmt.VectorOrderBy.Column)}

\* d is the distance of rank k (from 0) among the rows of t: at most k rows
\* are nearer and more than k rows are as near
HasRank(stmt, d, k) ==
    /\ Cardinality({r \in Ranked(stmt) :
                      DistLess(QueryDistance(stmt, tables["t"].Rows[r]), d)}) <= k
    /\ Cardinality({r \in Ranked(stmt) :
                      ~DistLess(d, QueryDistance(stmt, tables["t"].Rows[r]))}) > k

\* C16: without an index, a vector ORDER BY with LIMIT l and OFFSET o returns
\* the rows of the ranks o, o+1, ..., o+l-1 by ascending distance, as many of
\* them as exist.
C16_LimitOffsetRanks ==
    (/\ result.op = "select" /\ result.ok
     /\ result.arg.VectorOrderBy # None /\ ~result.arg.VectorOrderBy.Descending
     /\ result.arg.Limit > 0 /\ result.arg.Offset > 0)
    => LET stmt == result.arg
           n == Cardinality(Ranked(stmt))
       IN  /\ Len(result.rows) =
                 IF n <= stmt.Offset THEN 0 ELSE Min(stmt.Limit, n - stmt.Offset)
           /\ \A i \in 1..Len(result.rows) :
                 /\ HasRank(stmt, result.rows[i]["_distance"], stmt.Offset + i - 1)
                 /\ \E r \in Ranked(stmt) :
                       /\ \A c \in DOMAIN tables["t"].Rows[r] :
                             result.rows[i][c] = tables["t"].Rows[r][c]
                       /\ result.rows[i]["_distance"] =
                             QueryDistance(stmt, tables["t"].Rows[r])

\* C17: a vector ORDER BY with DESC returns the rows in non-increasing
\* distance, the reverse of the order returned without DESC.
C17_DescendingOrder ==
    (/\ result.op = "select" /\ result.ok
     /\ result.arg.VectorOrderBy # None /\ result.arg.VectorOrderBy.Descending
     /\ result.arg.Limit = 0 /\ result.arg.Offset = 0)
    => LET asc == SelectRows(tables, [result.arg EXCEPT !.VectorOrderBy.Descending = FALSE]).rows
       IN  /\ \A i, j \in 1..Len(result.rows) :
                 i < j => ~DistLess(result.rows[i]["_distance"], result.rows[j]["_distance"])
           /\ result.rows = [i \in 1..Len(asc) |-> asc[Len(asc) + 1 - i]]

(***************************************************************************)
(* SpecIndex: the table of SpecVector with CREATE INDEX ... USING HNSW on  *)
(* its vector column, and SELECTs ordered by either distance function.     *)
(***************************************************************************)
IndexStmt ==
    [IndexName |-> "i", TableName |-> "t", ColumnName |-> "val", IndexType |-> "HNSW",
     Options |-> [m |-> 2, ef_construction |-> 2]]

IndexInserts == {InsertStmt(<<>>, <<<<v>>>>) : v \in {Lit2(1, 0), Lit2(0, 1), Lit2(1, 1)}}

CreateTableIndex == CreateTableOf({<<cVec>>})
InsertIndex == InsertOf(IndexInserts, MaxSlots)
CreateIndex ==
    /\ "t" \in DOMAIN tables
    /\ \E layers \in [1..Len(tables["t"].Rows) -> 1..MaxLayer] :
          ExecuteCreateIndex(IndexStmt, layers)
    /\ UNCHANGED inserted
SelectIndex ==
    \E function \in DistanceFunctions, query \in {<<1, 0>>, <<2, 0>>} :
        /\ ExecuteSelect(VectorStmt(function, query, FALSE, 0, 0))
        /\ UNCHANGED inserted

NextIndex ==
    \/ CreateTableIndex
    \/ InsertIndex
    \/ CreateIndex
    \/ SelectIndex

SpecIndex == TInit /\ [][NextIndex]_vars

\* two distances have the same value; over vectors of natural components an
\* L2 distance sqrt(p) equals a cosine distance only when both are 0 or 1
SameDistance(x, y) ==
    IF x.m = y.m THEN ~DistLess(x, y) /\ ~DistLess(y, x)
    ELSE LET l2 == IF x.m = "L2" THEN x ELSE y
             cos == IF x.m = "L2" THEN y ELSE x
         IN  \/ l2.p = 0 /\ cos.p * cos.p = cos.q
             \/ l2.p = 1 /\ cos.p = 0

\* C18: the distances that rank the rows of a vector ORDER BY and that
\* _distance reports are those of the metric the query's function names,
\* with or without an HNSW index on the column.
C18_QueryMetric ==
    (result.op = "select" /\ result.ok /\ result.arg.VectorOrderBy # None)
    => /\ \A i \in 1..Len(result.rows) :
             SameDistance(result.rows[i]["_distance"],
                          QueryDistance(result.arg, result.rows[i]))
       /\ \A i, j \in 1..Len(result.rows) :
             i < j => ~DistLess(QueryDistance(result.arg, result.rows[j]),
                                QueryDistance(result.arg, result.rows[i]))

(***************************************************************************)
(* SpecRace: two goroutines execute INSERT and TRUNCATE on table t.  A     *)
(* call goes through Table.Insert or Table.Truncate (mu.Lock, the change,  *)
(* the deferred mu.Unlock) and then through SaveTableToDisk, which takes   *)
(* no lock: os.Create and the header built from len(table.Pages), then the *)
(* writes of header, schema and pages.  A save that overlaps another save  *)
(* is taken to replace the whole file.                                     *)
(***************************************************************************)
TruncateStmt == [TableName |-> "t"]
RaceStmts ==
    {[kind |-> "insert", stmt |-> InsertStmt(<<>>, <<<<IntV(i)>>>>)] : i \in {1, 2}}
    \cup {[kind |-> "truncate", stmt |-> TruncateStmt]}

\* the table after the Table method of the call has run
Mutated(call) ==
    IF call.kind = "insert" THEN InsertLoop(tables, call.stmt, 1)
    ELSE [err |-> "", table |-> TableTruncate(tables["t"])]

\* the inserts that have been called and have not yet changed the table
Pending == {g \in Goroutines : calls[g].pc \in {"lock", "mutate"}
                               /\ calls[g].stmt.kind = "insert"}

\* executeInsert, executeTruncate: the table is looked up
Call(g, call) ==
    /\ Serving
    /\ "t" \in DOMAIN tables
    /\ calls[g].pc = "idle"
    /\ call.kind = "insert" => SlotCount(tables["t"]) + Cardinality(Pending) < MaxSlots
    /\ calls' = [calls EXCEPT ![g] = [pc |-> "lock", stmt |-> call, numPages |-> 0]]
    /\ UNCHANGED <<tables, files, result, inserted, lockFile, dataDirs, srv, mu>>

\* t.mu.Lock()
Lock(g) ==
    /\ calls[g].pc = "lock"
    /\ mu = 0
    /\ mu' = g
    /\ calls' = [calls EXCEPT ![g].pc = "mutate"]
    /\ UNCHANGED <<tables, files, result, inserted, lockFile, dataDirs, srv>>

\* the body of Table.Insert or Table.Truncate and the deferred t.mu.Unlock()
MutateUnlock(g) ==
    /\ calls[g].pc = "mutate"
    /\ mu' = 0
    /\ tables' = Put(tables, "t", Mutated(calls[g].stmt).table)
    /\ IF Mutated(calls[g].stmt).err # ""
       THEN /\ calls' = [calls EXCEPT ![g] = Idle]
            /\ result' = Res(calls[g].stmt.kind, FALSE, calls[g].stmt.stmt, <<>>)
       ELSE /\ calls' = [calls EXCEPT ![g].pc = "create"]
            /\ result' = result
    /\ UNCHANGED <<files, inserted, lockFile, dataDirs, srv>>

EmptyFile == [NumColumns |-> 0, NumPages |-> 0, Schema |-> <<>>, Pages |-> <<>>]

\* SaveTableBinary, os.Create and the header: the file is emptied, and
\* len(table.Pages) is put into the header buffer
SaveCreate(g) ==
    /\ calls[g].pc = "create"
    /\ files' = Put(files, "t", EmptyFile)
    /\ calls' = [calls EXCEPT ![g].pc = "write", ![g].numPages = Len(tables["t"].Pages)]
    /\ UNCHANGED <<tables, result, inserted, lockFile, dataDirs, srv, mu>>

\* what a save reads of the table: the table, or, while another goroutine is
\* inside a Table method, the table before or after that method's writes
Views(g) ==
    {tables["t"]}
    \cup {Mutated(calls[h].stmt).table : h \in {x \in Goroutines : x # g /\ calls[x].pc = "mutate"}}

\* SaveTableBinary, the writes of the header, the schema and the pages, and
\* the return of the call
SaveWrite(g) ==
    /\ calls[g].pc = "write"
    /\ \E view \in Views(g) :
          files' = Put(files, "t",
                       [SaveTableBinary(view) EXCEPT !.NumPages = calls[g].numPages])
    /\ calls' = [calls EXCEPT ![g] = Idle]
    /\ result' = Res(calls[g].stmt.kind, TRUE, calls[g].stmt.stmt, <<>>)
    /\ UNCHANGED <<tables, inserted, lockFile, dataDirs, srv, mu>>

CreateTableRace ==
    /\ \A g \in Goroutines : calls[g].pc = "idle"
    /\ CreateTableOf({<<cOptId>>})

NextRace ==
    \/ CreateTableRace
    \/ \E g \in Goroutines, call \in RaceStmts : Call(g, call)
    \/ \E g \in Goroutines : Lock(g)
    \/ \E g \in Goroutines : MutateUnlock(g)
    \/ \E g \in Goroutines : SaveCreate(g)
    \/ \E g \in Goroutines : SaveWrite(g)

SpecRace == TInit /\ [][NextRace]_vars

\* a goroutine is inside SaveTableBinary
Saving(g) == calls[g].pc \in {"create", "write"}

\* the first part of C19: the file is rewritten under the writer lock
SaveHoldsLock == \A g \in Goroutines : Saving(g) => mu = g

\* the second part of C19: no save reads the table while another goroutine
\* changes it
NoReadWhileChanging ==
    \A g, h \in Goroutines : ~(g # h /\ calls[g].pc = "write" /\ calls[h].pc = "mutate")

\* the third part of C19: once every call has returned, the file holds the
\* table with the effects of all of them
LastSaveComplete ==
    ("t" \in DOMAIN tables /\ \A g \in Goroutines : calls[g].pc = "idle")
    => files["t"] = SaveTableBinary(tables["t"])

\* C19: every mutation rewrites the table file while it holds the table's
\* writer lock, so with two concurrent mutations of one table no save reads
\* the table while the other mutation changes it, and the file of the save
\* that finishes last holds the effects of both.
C19_SaveUnderWriterLock ==
    /\ SaveHoldsLock
    /\ NoReadWhileChanging
    /\ LastSaveComplete

(***************************************************************************)
(* SpecSlots: InsertRow on one slotted page, with rows of lengths around   *)
(* the page size and around 2^16.  The page is page 1 of table t; inserted *)
(* keeps the page as it was before the last call.                          *)
(***************************************************************************)
\* a TEXT row of byte length 8 + pad
RowOfPad(pad) == EncodeRow(<<cBody>>, [val |-> StrV(<<>>, pad)]).data

\* byte lengths 8, 8008, 16368 (what an empty page takes), 16369, 65532,
\* 65535, 65536 and 65544
RowPads == {0, 8000, 16360, 16361, 65524, 65527, 65528, 65536}

OnePage(sp) == [NewTable(<<cBody>>) EXCEPT !.Pages = <<sp>>]

SlotsInit ==
    /\ tables = [x \in {"t"} |-> OnePage(NewSlottedPage(0))]
    /\ files = EmptyMap
    /\ result = Res("none", TRUE, None, <<>>)
    /\ inserted = <<NewSlottedPage(0)>>
    /\ lockFile = NoLock
    /\ dataDirs = {}
    /\ srv = [p \in Procs |-> Down]
    /\ mu = 0
    /\ calls = [g \in Goroutines |-> Idle]

\* the last call ended in a panic
Panicked == IF result.op = "insertrow" THEN result.arg.err = "panic" ELSE FALSE

\* sp.InsertRow(rowData) on the page; after a panic the page is left as the
\* panic found it
InsertRowOf(rowData) ==
    /\ ~Panicked
    /\ tables["t"].Pages[1].NumSlots < MaxSizedSlots
    /\ tables' = [x \in {"t"} |-> OnePage(InsertRow(tables["t"].Pages[1], rowData).page)]
    /\ inserted' = <<tables["t"].Pages[1]>>
    /\ result' = Res("insertrow", InsertRow(tables["t"].Pages[1], rowData).err = "",
                     [data |-> rowData,
                      err |-> InsertRow(tables["t"].Pages[1], rowData).err], <<>>)
    /\ UNCHANGED <<files, svars>>

NextSlots == \E pad \in RowPads : InsertRowOf(RowOfPad(pad))

SpecSlots == SlotsInit /\ [][NextSlots]_vars

\* the call stored the whole row in a new slot and left the other slots alone
StoredWhole(before, sp, rowData) ==
    /\ Len(sp.Slots) = Len(before.Slots) + 1
    /\ sp.Slots[Len(sp.Slots)].Length = DataLen(rowData)
    /\ sp.Slots[Len(sp.Slots)].Data = rowData
    /\ \A i \in 1..Len(before.Slots) : sp.Slots[i] = before.Slots[i]

\* the layout of a page: the slot directory ends at or before the heap, the
\* heap ends with the page, and the rows lie in the heap without overlap
WellFormed(sp) ==
    /\ sp.FreeStart = SlottedPageHeaderSize + SlotSize * sp.NumSlots
    /\ sp.FreeStart <= sp.FreeEnd
    /\ sp.FreeEnd <= PageSize
    /\ \A i \in 1..Len(sp.Slots) :
          /\ sp.Slots[i].Offset >= sp.FreeEnd
          /\ sp.Slots[i].Offset + sp.Slots[i].Length <= PageSize
    /\ \A i, j \in 1..Len(sp.Slots) :
          i < j => \/ sp.Slots[i].Offset + sp.Slots[i].Length <= sp.Slots[j].Offset
                   \/ sp.Slots[j].Offset + sp.Slots[j].Length <= sp.Slots[i].Offset

\* C20: for rows of any byte length, also when the length or the length
\* plus 4 does not fit in 16 bits, each InsertRow either reports a full page
\* and leaves the page unchanged or stores the whole row, and every page
\* reached has free_start = 12 + 4*num_slots <= free_end <= 16384 with the
\* slot regions inside [free_end, 16384) and pairwise disjoint.
C20_InsertRowAnyLength ==
    /\ IF result.op # "insertrow" THEN TRUE
       ELSE \/ result.arg.err = "space" /\ tables["t"].Pages[1] = inserted[1]
            \/ result.arg.err = "" /\ StoredWhole(inserted[1], tables["t"].Pages[1],
                                                  result.arg.data)
    /\ WellFormed(tables["t"].Pages[1])

(***************************************************************************)
(* SpecReload: InsertRow on one slotted page as in SpecSlots, and the page *)
(* written to its 16384 bytes and loaded again.  inserted keeps every call *)
(* with its outcome.                                                       *)
(***************************************************************************)
ThePage == tables["t"].Pages[1]

ReloadInit ==
    /\ tables = [x \in {"t"} |-> OnePage(NewSlottedPage(0))]
    /\ files = EmptyMap
    /\ result = Res("none", TRUE, None, <<>>)
    /\ inserted = <<>>
    /\ lockFile = NoLock
    /\ dataDirs = {}
    /\ srv = [p \in Procs |-> Down]
    /\ mu = 0
    /\ calls = [g \in Goroutines |-> Idle]

\* sp.InsertRow(rowData), recorded with its error
InsertRowLogged(rowData) ==
    /\ Len(inserted) < MaxSizedSlots
    /\ tables' = [x \in {"t"} |-> OnePage(InsertRow(ThePage, rowData).page)]
    /\ inserted' = Append(inserted, [data |-> rowData, err |-> InsertRow(ThePage, rowData).err])
    /\ result' = Res("insertrow", InsertRow(ThePage, rowData).err = "", None, <<>>)
    /\ UNCHANGED <<files, svars>>

\* the page is written as file.Write(page.Data[:]) does and read back
ReloadPage ==
    /\ result.op # "reload"
    /\ tables' = [x \in {"t"} |-> OnePage(LoadSlottedPage(PageImage(ThePage)))]
    /\ result' = Res("reload", TRUE, None, <<>>)
    /\ UNCHANGED <<files, inserted, svars>>

NextReload ==
    \/ \E pad \in RowPads : InsertRowLogged(RowOfPad(pad))
    \/ ReloadPage

SpecReload == ReloadInit /\ [][NextReload]_vars

\* the rows given to InsertRow so far, as GetAllRows is to return them
GivenRows == [i \in 1..Len(inserted) |->
                [data |-> inserted[i].data, length |-> DataLen(inserted[i].data)]]

\* C21: while every insertion into a fresh page succeeds, GetAllRows returns
\* exactly the inserted rows in insertion order, and the page loaded from its
\* 16384-byte image has the same page id, num_slots, free_start, free_end and
\* GetAllRows result, so that a later insertion does the same on both.
C21_PageRoundTrip ==
    (\A i \in 1..Len(inserted) : inserted[i].err = "")
    => /\ GetAllRows(ThePage) = GivenRows
       /\ LoadSlottedPage(PageImage(ThePage)).PageID = ThePage.PageID
       /\ LoadSlottedPage(PageImage(ThePage)).NumSlots = ThePage.NumSlots
       /\ LoadSlottedPage(PageImage(ThePage)).FreeStart = ThePage.FreeStart
       /\ LoadSlottedPage(PageImage(ThePage)).FreeEnd = ThePage.FreeEnd
       /\ GetAllRows(LoadSlottedPage(PageImage(ThePage))) = GetAllRows(ThePage)
       /\ \A pad \in RowPads :
             InsertRow(LoadSlottedPage(PageImage(ThePage)), RowOfPad(pad))
                = InsertRow(ThePage, RowOfPad(pad))

(***************************************************************************)
(* SpecHnsw: one HNSW index, kept as the index of column val of table t,   *)
(* built by Add calls, and Search calls on it.  M is 1 or 2; with M = 1    *)
(* every node is drawn into layer 16.                                      *)
(***************************************************************************)
TheIndex == tables["t"].VectorIndexes["val"]

IndexTable(h) == [NewTable(<<cVec>>) EXCEPT !.VectorIndexes = [x \in {"val"} |-> h]]

HnswVectors == {VecV(<<1, 0>>), VecV(<<0, 1>>), VecV(<<2, 1>>)}

HnswInit ==
    /\ \E m \in {1, 2}, metric \in {"COSINE", "L2"} :
          tables = [x \in {"t"} |-> IndexTable(NewHNSWIndex(m, 2, metric))]
    /\ files = EmptyMap
    /\ result = Res("none", TRUE, None, <<>>)
    /\ inserted = <<>>
    /\ lockFile = NoLock
    /\ dataDirs = {}
    /\ srv = [p \in Procs |-> Down]
    /\ mu = 0
    /\ calls = [g \in Goroutines |-> Idle]

\* h.Add(vec, rowID) with the row id executeCreateIndex gives, the position
AddOf(vec, layer) ==
    /\ Len(TheIndex.Vectors) < MaxNodes
    /\ layer \in randomLayer(TheIndex)
    /\ tables' = [x \in {"t"} |->
                    IndexTable(Add(TheIndex, vec, Len(TheIndex.Vectors), layer))]
    /\ result' = Res("add", TRUE, vec, <<>>)
    /\ UNCHANGED <<files, inserted, svars>>

\* h.Search(query, k, ef)
SearchOf(query, k, ef) ==
    /\ result' = Res("search", TRUE, [query |-> query, k |-> k, ef |-> ef],
                     Search(TheIndex, query, k, ef))
    /\ UNCHANGED <<tables, files, inserted, svars>>

NextHnsw ==
    \/ \E vec \in HnswVectors, layer \in 0..16 : AddOf(vec, layer)
    \/ \E query \in {VecV(<<1, 0>>), VecV(<<1, 2>>)}, k \in {1, MaxNodes}, ef \in {2, MaxNodes} :
          SearchOf(query, k, ef)

SpecHnsw == HnswInit /\ [][NextHnsw]_vars

\* what the layer-0 search of Search(query, k, ef) recorded
Recorded(h, query, ef) ==
    IF h.EntryPoint = 0 - 1 THEN <<>>
    ELSE searchLayer(h, query, Descend(h, query, h.EntryPoint, Len(h.Graph) - 1, 0), ef, 0)

RECURSIVE ReachFrom(_, _)
ReachFrom(g, set) ==
    IF UNION {{g[i][k] : k \in 1..Len(g[i])} : i \in set \cap DOMAIN g} \subseteq set
    THEN set
    ELSE ReachFrom(g, set \cup UNION {{g[i][k] : k \in 1..Len(g[i])} : i \in set \cap DOMAIN g})

\* the row ids Search returns for the query with k and ef the number of nodes
FoundRowIDs(h, query) ==
    {Search(h, query, Len(h.Vectors), Len(h.Vectors))[i].Row["_row_id"].v[1] :
        i \in 1..Len(Search(h, query, Len(h.Vectors), Len(h.Vectors)))}

\* C23: after any sequence of Add calls every node is reached from the entry
\* point along layer-0 neighbour lists, and Search with k and ef the number
\* of vectors returns the row id of every vector.
C23_AllNodesReachable ==
    TheIndex.EntryPoint # 0 - 1
    => /\ ReachFrom(TheIndex.Graph[1], {TheIndex.EntryPoint})
             = 0..(Len(TheIndex.Vectors) - 1)
       /\ \A query \in HnswVectors :
             FoundRowIDs(TheIndex, query)
                = {TheIndex.RowIDs[i] : i \in 1..Len(TheIndex.RowIDs)}

(***************************************************************************)
(* SpecWalk: Add and Search of one HNSW index (M 1 or 2, L2 metric) run    *)
(* loop round by loop round by goroutine 1.  calls[1] holds the locals of  *)
(* the call: pc is "descend" inside findClosestInLayer of layer l, "begin" *)
(* before searchLayer of layer l, "search" inside its loop.  passes and    *)
(* iters count the rounds of the running loop.                             *)
(***************************************************************************)
MaxWalkNodes == 3    \* vectors added to the index of SpecWalk

Walk == calls[1]

WalkVectors == {VecV(<<1, 0>>), VecV(<<0, 1>>)}

WalkInit ==
    /\ \E m \in {1, 2} : tables = [x \in {"t"} |-> IndexTable(NewHNSWIndex(m, 2, "L2"))]
    /\ files = EmptyMap
    /\ result = Res("none", TRUE, None, <<>>)
    /\ inserted = <<>>
    /\ lockFile = NoLock
    /\ dataDirs = {}
    /\ srv = [p \in Procs |-> Down]
    /\ mu = 0
    /\ calls = [g \in Goroutines |-> Idle]

\* closest, closestDist and changed as findClosestInLayer sets them on entry
FirstBest(h, query, ep) ==
    [id |-> ep, d |-> NodeDistance(h, query, ep).d, changed |-> TRUE]

\* the locals on entry to the loops of Add (floor = the node's layer) and of
\* Search (floor = 0), the index being h
Entered(h, mode, query, id, k, ef, floor) ==
    [pc |-> IF Len(h.Graph) - 1 > floor THEN "descend" ELSE "begin",
     mode |-> mode, query |-> query, id |-> id, k |-> k, ef |-> ef,
     l |-> IF Len(h.Graph) - 1 > floor THEN Len(h.Graph) - 1 ELSE floor,
     floor |-> floor,
     best |-> FirstBest(h, query, h.EntryPoint), prev |-> FirstBest(h, query, h.EntryPoint).d,
     passes |-> 0, iters |-> 0, pq |-> <<>>, visited |-> {}, results |-> <<>>,
     stopped |-> FALSE]

\* Add, lines 38-62: the node is entered; the first node becomes the entry point
StartAdd(vec, layer) ==
    /\ Walk.pc = "idle"
    /\ Len(TheIndex.Vectors) < MaxWalkNodes
    /\ layer \in randomLayer(TheIndex)
    /\ IF TheIndex.EntryPoint = 0 - 1
       THEN /\ tables' = [x \in {"t"} |-> IndexTable(Add(TheIndex, vec, 0, layer))]
            /\ calls' = calls
            /\ result' = Res("add", TRUE, vec, <<>>)
       ELSE /\ tables' = [x \in {"t"} |->
                            IndexTable(WithNode(TheIndex, vec, Len(TheIndex.Vectors), layer))]
            /\ calls' = [calls EXCEPT ![1] =
                            Entered(WithNode(TheIndex, vec, Len(TheIndex.Vectors), layer),
                                    "add", vec, Len(TheIndex.Vectors), 0,
                                    TheIndex.EfConstruction, layer)]
            /\ result' = result
    /\ UNCHANGED <<files, inserted, lockFile, dataDirs, srv, mu>>

\* Search, lines 83-89
StartSearch(query, k, ef) ==
    /\ Walk.pc = "idle"
    /\ IF TheIndex.EntryPoint = 0 - 1
       THEN /\ calls' = calls
            /\ result' = Res("search", TRUE, [query |-> query, k |-> k, ef |-> ef], <<>>)
       ELSE /\ calls' = [calls EXCEPT ![1] = Entered(TheIndex, "search", query, 0 - 1, k, ef, 0)]
            /\ result' = result
    /\ UNCHANGED <<tables, files, inserted, lockFile, dataDirs, srv, mu>>

\* findClosestInLayer: one round of "for changed" that finds the neighbours
DescendPass ==
    /\ Walk.pc = "descend"
    /\ Walk.best.changed
    /\ Walk.best.id \in DOMAIN TheIndex.Graph[Walk.l + 1]
    /\ calls' = [calls EXCEPT
          ![1].best = ScanNeighbors(TheIndex, Walk.query,
                                    TheIndex.Graph[Walk.l + 1][Walk.best.id], 1,
                                    [Walk.best EXCEPT !.changed = FALSE]),
          ![1].prev = Walk.best.d,
          ![1].passes = Walk.passes + 1]
    /\ UNCHANGED <<tables, files, result, inserted, lockFile, dataDirs, srv, mu>>

\* findClosestInLayer returns: changed is false or the node has no list in
\* the layer; the caller goes one layer down
DescendReturn ==
    /\ Walk.pc = "descend"
    /\ ~Walk.best.changed \/ Walk.best.id \notin DOMAIN TheIndex.Graph[Walk.l + 1]
    /\ calls' = [calls EXCEPT
          ![1].pc = IF Walk.l - 1 > Walk.floor THEN "descend" ELSE "begin",
          ![1].l = Walk.l - 1,
          ![1].best = FirstBest(TheIndex, Walk.query, Walk.best.id),
          ![1].prev = Walk.best.d,
          ![1].passes = 0]
    /\ UNCHANGED <<tables, files, result, inserted, lockFile, dataDirs, srv, mu>>

\* searchLayer, lines 161-178: the entry point is pushed and marked
SearchBegin ==
    /\ Walk.pc = "begin"
    /\ calls' = [calls EXCEPT
          ![1].pc = "search",
          ![1].pq = <<[ID |-> Walk.best.id,
                       Distance |-> NodeDistance(TheIndex, Walk.query, Walk.best.id).d]>>,
          ![1].visited = {Walk.best.id},
          ![1].results = <<>>,
          ![1].iters = 0,
          ![1].stopped = FALSE]
    /\ UNCHANGED <<tables, files, result, inserted, lockFile, dataDirs, srv, mu>>

\* the locals after one round of the loop of searchLayer, popped being
\* HeapPop of the queue
AfterRound(w, popped, h) ==
    IF Len(w.results) >= w.ef
    THEN [w EXCEPT !.pq = SubSeq(popped, 1, Len(popped) - 1), !.stopped = TRUE,
                   !.iters = w.iters + 1]
    ELSE [w EXCEPT
            !.pq = Explore(h, w.query, NeighborsOf(h, w.l, popped[Len(popped)].ID), 1,
                           [pq |-> SubSeq(popped, 1, Len(popped) - 1),
                            visited |-> w.visited]).pq,
            !.visited = Explore(h, w.query, NeighborsOf(h, w.l, popped[Len(popped)].ID), 1,
                                [pq |-> SubSeq(popped, 1, Len(popped) - 1),
                                 visited |-> w.visited]).visited,
            !.results = Append(w.results, popped[Len(popped)]),
            !.iters = w.iters + 1]

\* searchLayer: one round of "for candidates.Len() > 0"
SearchRound ==
    /\ Walk.pc = "search"
    /\ Walk.pq # <<>>
    /\ ~Walk.stopped
    /\ calls' = [calls EXCEPT ![1] = AfterRound(Walk, HeapPop(Walk.pq), TheIndex)]
    /\ UNCHANGED <<tables, files, result, inserted, lockFile, dataDirs, srv, mu>>

\* searchLayer returns to Search, which returns the first k results
SearchReturn ==
    /\ Walk.pc = "search"
    /\ Walk.mode = "search"
    /\ Walk.pq = <<>> \/ Walk.stopped
    /\ result' = Res("search", TRUE, [query |-> Walk.query, k |-> Walk.k, ef |-> Walk.ef],
                     FirstResults(TheIndex, Walk.results, Walk.k, 1))
    /\ calls' = [calls EXCEPT ![1] = Idle]
    /\ UNCHANGED <<tables, files, inserted, lockFile, dataDirs, srv, mu>>

\* searchLayer returns to Add, lines 70-76: connectNeighbors, the next entry
\* point and the next layer down, or the return of Add after layer 0
AddLayerReturn ==
    /\ Walk.pc = "search"
    /\ Walk.mode = "add"
    /\ Walk.pq = <<>> \/ Walk.stopped
    /\ tables' = [x \in {"t"} |->
                    IndexTable(connectNeighbors(TheIndex, Walk.id, Walk.results, Walk.l))]
    /\ IF Walk.l = 0
       THEN /\ calls' = [calls EXCEPT ![1] = Idle]
            /\ result' = Res("add", TRUE, Walk.query, <<>>)
       ELSE /\ calls' = [calls EXCEPT
                  ![1].pc = "begin",
                  ![1].l = Walk.l - 1,
                  ![1].best = FirstBest(TheIndex, Walk.query,
                                        IF Len(Walk.results) > 0 THEN Walk.results[1].ID
                                        ELSE Walk.best.id)]
            /\ result' = result
    /\ UNCHANGED <<files, inserted, lockFile, dataDirs, srv, mu>>

NextWalk ==
    \/ \E vec \in WalkVectors, layer \in 0..16 : StartAdd(vec, layer)
    \/ \E query \in {VecV(<<1, 0>>), VecV(<<2, 2>>)}, ef \in {1, MaxWalkNodes} :
          StartSearch(query, MaxWalkNodes, ef)
    \/ DescendPass
    \/ DescendReturn
    \/ SearchBegin
    \/ SearchRound
    \/ SearchReturn
    \/ AddLayerReturn

SpecWalk == WalkInit /\ [][NextWalk]_vars

\* the step by step Search returns what Search returns
WalkAgrees ==
    IF result.op # "search" \/ Walk.pc # "idle" THEN TRUE
    ELSE result.rows = Search(TheIndex, result.arg.query, result.arg.k, result.arg.ef)

\* the ids of the items pushed so far in the running searchLayer: those
\* popped into results and those still queued
PushedIDs(w) == [i \in 1..(Len(w.results) + Len(w.pq)) |->
                    IF i <= Len(w.results) THEN w.results[i].ID
                    ELSE w.pq[i - Len(w.results)].ID]

\* C24: Add and Search terminate on every graph the index reaches, cycles
\* included.  A round of the greedy descent that moves, moves to a strictly
\* closer node, and a layer is left after at most as many rounds as there are
\* nodes; the layer search pushes no node twice, runs at most one round per
\* node and one more, and stops only with ef results or an empty heap.
C24_LoopsTerminate ==
    /\ Walk.pc = "descend"
       => /\ Walk.passes <= Len(TheIndex.Vectors)
          /\ (Walk.passes > 0 /\ Walk.best.changed) => DistLess(Walk.best.d, Walk.prev)
          /\ (Walk.passes > 0 /\ ~Walk.best.changed) => Walk.best.d = Walk.prev
    /\ Walk.pc = "search"
       => /\ Walk.iters <= Len(TheIndex.Vectors) + 1
          /\ \A i, j \in 1..Len(PushedIDs(Walk)) :
                i # j => PushedIDs(Walk)[i] # PushedIDs(Walk)[j]
          /\ Walk.stopped => Len(Walk.results) >= Walk.ef

\* a search whose descent has just moved to a closer node of a layer in which
\* the nodes point at each other
C24_DescentMovedOnCycle ==
    /\ Walk.pc = "descend"
    /\ Walk.mode = "search"
    /\ Walk.passes > 0
    /\ Walk.best.changed
    /\ Walk.best.id \in DOMAIN TheIndex.Graph[Walk.l + 1]
    /\ \E k \in 1..Len(TheIndex.Graph[Walk.l + 1][Walk.best.id]) :
          LET nb == TheIndex.Graph[Walk.l + 1][Walk.best.id][k]
          IN  \E j \in 1..Len(TheIndex.Graph[Walk.l + 1][nb]) :
                 TheIndex.Graph[Walk.l + 1][nb][j] = Walk.best.id

(***************************************************************************)
(* SpecStale: table t(id INT PRIMARY KEY, val VECTOR) with an HNSW index   *)
(* on val; after CREATE INDEX rows are inserted and deleted, the table is  *)
(* truncated, and SELECTs ordered by COSINE_DISTANCE (the metric of the    *)
(* index) carry a WHERE clause or none.                                    *)
(***************************************************************************)
StaleInserts ==
    {InsertStmt(<<>>, <<<<IntV(id), v>>>>) : id \in {1, 2, 3}, v \in {Lit2(1, 0), Lit2(0, 1)}}

StaleWheres == {None, Leaf("id", "=", IntV(2))}

CreateTableStale == CreateTableOf({<<cId, cVec>>})
InsertStale == InsertOf(StaleInserts, MaxSlots)
DeleteStale == DeleteOf({Leaf("id", "=", IntV(1))})
SelectStale ==
    \E w \in StaleWheres :
        /\ ExecuteSelect([VectorStmt("COSINE_DISTANCE", <<1, 0>>, FALSE, 0, 0)
                             EXCEPT !.Where = w])
        /\ UNCHANGED inserted

NextStale ==
    \/ CreateTableStale
    \/ InsertStale
    \/ CreateIndex
    \/ SelectStale
    \/ DeleteStale
    \/ Truncate

SpecStale == TInit /\ [][NextStale]_vars

\* the result row without its _distance
TableColumns(row) == [k \in DOMAIN row \ {"_distance"} |-> row[k]]

\* C25: every row of a vector search answered from the HNSW index is a row of
\* the table, and its _distance is the distance between the query and the
\* vector that this row holds, with or without a WHERE clause, also after
\* inserts, deletes and a truncate that follow CREATE INDEX.
C25_IndexRowsAreTableRows ==
    IF result.op = "select" /\ result.ok
    THEN (result.arg.VectorOrderBy # None /\ "val" \in DOMAIN tables["t"].VectorIndexes)
         => \A i \in 1..Len(result.rows) :
               /\ \E j \in 1..Len(tables["t"].Rows) :
                     tables["t"].Rows[j] = TableColumns(result.rows[i])
               /\ IF "val" \in DOMAIN result.rows[i]
                  THEN SameDistance(result.rows[i]["_distance"],
                                    QueryDistance(result.arg, result.rows[i]))
                  ELSE FALSE
    ELSE TRUE

(***************************************************************************)
(* SpecAlter: table t(id INT PRIMARY KEY, val TEXT) receives rows and then *)
(* ALTER TABLE t ADD COLUMN extra INT.                                     *)
(***************************************************************************)
AlterInserts ==
    {InsertStmt(<<>>, <<<<IntV(id), v>>>>) : id \in {1, 2, 3}, v \in {Nil, sAbc, sOne}}

CreateTableAlter == CreateTableOf({<<cId, cBody>>})
InsertAlter == InsertOf(AlterInserts, MaxSlots)
AlterTableAlter == AlterTableOf({cExtra})
DeleteAlter == DeleteOf({Leaf("id", "=", IntV(1))})

NextAlter ==
    \/ CreateTableAlter
    \/ InsertAlter
    \/ AlterTableAlter
    \/ DeleteAlter

SpecAlter == TInit /\ [][NextAlter]_vars

\* C26: after ALTER TABLE ADD COLUMN on a table that holds rows, the table
\* file the handler has saved loads without error and yields the rows of the
\* table, each with the new column null.
C26_AlteredFileLoads ==
    IF result.op = "alter" /\ result.ok
    THEN Len(tables["t"].Rows) > 0
         => /\ LoadTableBinary(files["t"]).err = ""
            /\ LoadTableBinary(files["t"]).table.Rows = tables["t"].Rows
            /\ \A i \in 1..Len(tables["t"].Rows) : tables["t"].Rows[i][result.arg] = Nil
    ELSE TRUE

(***************************************************************************)
(* SpecConv: table t(id INT, val TEXT) receives single-row INSERTs that    *)
(* give both columns: integers and strings for id, strings and NULL for    *)
(* val.                                                                    *)
(***************************************************************************)
ConvInserts ==
    {InsertStmt(<<>>, <<<<id, v>>>>) :
        id \in {IntV(1), IntV(0 - 2), sAbc, sOne}, v \in {Nil, sAbc, sOne}}

CreateTableConv == CreateTableOf({<<cOptId, cBody>>})
InsertConv == InsertOf(ConvInserts, MaxSlots)

NextConv ==
    \/ CreateTableConv
    \/ InsertConv

SpecConv == TInit /\ [][NextConv]_vars

\* C27: after every successful INSERT each column of each in-memory row holds
\* the value that decoding the row written to the page yields, whatever value
\* the insert accepted for the column.
C27_MemoryEqualsPage ==
    IF result.op = "insert" /\ result.ok
    THEN /\ LoadFromPages(tables["t"]).err = ""
         /\ Len(LoadFromPages(tables["t"]).table.Rows) = Len(tables["t"].Rows)
         /\ \A i \in 1..Len(tables["t"].Rows) :
               \A c \in DOMAIN tables["t"].Rows[i] :
                  LoadFromPages(tables["t"]).table.Rows[i][c] = tables["t"].Rows[i][c]
    ELSE TRUE

(***************************************************************************)
(* SpecMulti: table t(id INT PRIMARY KEY, val TEXT) receives INSERTs with  *)
(* one or two value tuples; a tuple fails on a duplicate primary key.      *)
(***************************************************************************)
MultiTuples == {<<IntV(id), v>> : id \in {1, 2}, v \in {Nil, sAbc}}

MultiInserts ==
    {InsertStmt(<<>>, <<a>>) : a \in MultiTuples}
    \cup {InsertStmt(<<>>, <<a, b>>) : a \in MultiTuples, b \in MultiTuples}

CreateTableMulti == CreateTableOf({<<cId, cBody>>})
InsertMulti == InsertOf(MultiInserts, MaxSlots)
DeleteMulti == DeleteOf({Leaf("id", "=", IntV(1)), Leaf("id", "=", IntV(2))})

NextMulti ==
    \/ CreateTableMulti
    \/ InsertMulti
    \/ DeleteMulti

SpecMulti == TInit /\ [][NextMulti]_vars

\* C28: an INSERT with several value tuples that fails on one of them leaves
\* none of its rows in the table, and the in-memory rows are then the rows
\* stored in the table file.
C28_FailedInsertIsAtomic ==
    [][(/\ "t" \in DOMAIN tables
        /\ result'.op = "insert" /\ ~result'.ok
        /\ Len(result'.arg.Values) > 1
        /\ LoadTableBinary(files["t"]).table.Rows = tables["t"].Rows)
       => /\ tables'["t"].Rows = tables["t"].Rows
          /\ LoadTableBinary(files'["t"]).table.Rows = tables'["t"].Rows]_vars

(***************************************************************************)
(* SpecCompare: compare (Table.Select, WHERE) and compareValues (ORDER BY, *)
(* MIN/MAX, key checks, joins) applied to three runtime values a, b, c     *)
(* held in inserted: integers, strings and null.                           *)
(***************************************************************************)
CompareValues ==
    {Nil, IntV(0 - 1), IntV(2), IntV(10), sOne, sAbc,
     StrV(<<49, 120>>, 0),       \* '1x'
     StrV(<<50>>, 0)}            \* '2'

CompareInit ==
    /\ tables = EmptyMap
    /\ files = EmptyMap
    /\ result = Res("none", TRUE, None, <<>>)
    /\ \E a \in CompareValues, b \in CompareValues, c \in CompareValues :
          inserted = <<a, b, c>>
    /\ lockFile = NoLock
    /\ dataDirs = {}
    /\ srv = [p \in Procs |-> Down]
    /\ mu = 0
    /\ calls = [g \in Goroutines |-> Idle]

\* compare(a,b), compare(b,a), compare(b,c), compare(a,c) of table.go
CompareOfTable ==
    /\ result' = Res("compare", TRUE, None,
                     <<compare(inserted[1], inserted[2]), compare(inserted[2], inserted[1]),
                       compare(inserted[2], inserted[3]), compare(inserted[1], inserted[3])>>)
    /\ UNCHANGED <<tables, files, inserted, svars>>

\* the same four results of the executor's compareValues
CompareOfExecutor ==
    /\ result' = Res("compareValues", TRUE, None,
                     <<compareValues(inserted[1], inserted[2]),
                       compareValues(inserted[2], inserted[1]),
                       compareValues(inserted[2], inserted[3]),
                       compareValues(inserted[1], inserted[3])>>)
    /\ UNCHANGED <<tables, files, inserted, svars>>

NextCompare ==
    \/ CompareOfTable
    \/ CompareOfExecutor

SpecCompare == CompareInit /\ [][NextCompare]_vars

\* C29: the cross-type comparison is a total preorder over integers, strings
\* and null: compare(a,b) = -compare(b,a), and compare(a,b) <= 0 with
\* compare(b,c) <= 0 implies compare(a,c) <= 0.
C29_TotalPreorder ==
    IF result.op \in {"compare", "compareValues"}
    THEN /\ result.rows[1] = 0 - result.rows[2]
         /\ (result.rows[1] <= 0 /\ result.rows[3] <= 0) => result.rows[4] <= 0
    ELSE TRUE

(***************************************************************************)
(* GROUP BY.  GroupRows keys its map by makeGroupKey; executeGroupBy walks *)
(* the map in the order Go's map iteration yields, which is any order.     *)
(* The statements of the model carry COUNT aggregates and no HAVING, ORDER *)
(* BY, OFFSET or LIMIT; their strings have no filler bytes.                *)
(***************************************************************************)
\* makeGroupKey: the "%v" texts of the columns from the i-th on, joined by "|"
RECURSIVE makeGroupKeyFrom(_, _, _)
makeGroupKeyFrom(row, columns, i) ==
    IF i > Len(columns) THEN <<>>
    ELSE (IF i > 1 THEN <<124>> ELSE <<>>)
         \o Sprintv(Get(row, columns[i])).v
         \o makeGroupKeyFrom(row, columns, i + 1)

makeGroupKey(row, columns) == makeGroupKeyFrom(row, columns, 1)

\* GroupRows: for every key the GroupKey taken from the first row with that
\* key and the rows with that key in their order
GroupRows(rows, groupByColumns) ==
    [key \in {makeGroupKey(rows[i], groupByColumns) : i \in 1..Len(rows)} |->
        [GroupKey |->
            [c \in {groupByColumns[k] : k \in 1..Len(groupByColumns)} |->
                Get(rows[CHOOSE i \in 1..Len(rows) :
                            /\ makeGroupKey(rows[i], groupByColumns) = key
                            /\ \A j \in 1..(i - 1) :
                                  makeGroupKey(rows[j], groupByColumns) # key],
                    c)],
         Rows |-> SelectSeq(rows, LAMBDA r : makeGroupKey(r, groupByColumns) = key)]]

computeCount(rows, column) ==
    IF column = "*" THEN Len(rows)
    ELSE Cardinality({i \in 1..Len(rows) : Present(rows[i], column)})

\* executeGroupBy, lines 1094-1119: the result row of one group
GroupRow(group, aggregates) ==
    [c \in DOMAIN group.GroupKey \cup {aggregates[i].Alias : i \in 1..Len(aggregates)} |->
        IF \E i \in 1..Len(aggregates) : aggregates[i].Alias = c
        THEN IntV(computeCount(group.Rows,
                    aggregates[CHOOSE i \in 1..Len(aggregates) :
                                  /\ aggregates[i].Alias = c
                                  /\ \A j \in (i + 1)..Len(aggregates) :
                                        aggregates[j].Alias # c].Column))
        ELSE group.GroupKey[c]]

\* executeGroupBy; order lists the keys of the groups as the range loop
\* visits them
executeGroupBy(stmt, rows, order) ==
    [i \in 1..Len(order) |-> GroupRow(GroupRows(rows, stmt.GroupBy)[order[i]], stmt.Aggregates)]

\* the orders in which a range loop can visit the keys of a map
Orders(keys) ==
    {f \in [1..Cardinality(keys) -> keys] :
        \A i, j \in 1..Cardinality(keys) : i # j => f[i] # f[j]}

\* executeSelect of a statement with aggregates and GROUP BY, without joins
ExecuteGroupSelect(stmt) ==
    /\ Serving
    /\ UNCHANGED svars
    /\ IF stmt.TableName \notin DOMAIN tables THEN NoTable("select", stmt)
       ELSE /\ \E order \in Orders(DOMAIN GroupRows(
                                TableSelect(tables[stmt.TableName], <<"*">>,
                                            convertWhereClause(stmt.Where)),
                                stmt.GroupBy)) :
                  result' = Res("select", TRUE, stmt,
                                executeGroupBy(stmt,
                                    TableSelect(tables[stmt.TableName], <<"*">>,
                                                convertWhereClause(stmt.Where)),
                                    order))
            /\ UNCHANGED <<tables, files>>

(***************************************************************************)
(* SpecGroup: table t(id TEXT, val TEXT) and the SELECT of id, val and the *)
(* count of all rows, grouped by id, val.                                  *)
(***************************************************************************)
GroupInserts ==
    {InsertStmt(<<>>, <<<<id, v>>>>) :
        id \in {StrV(<<97>>, 0), StrV(<<97, 124, 98>>, 0)},            \* 'a', 'a|b'
        v \in {StrV(<<99>>, 0), StrV(<<98, 124, 99>>, 0), Nil}}        \* 'c', 'b|c'

GroupStmt ==
    [TableName |-> "t", Columns |-> <<"id", "val">>, Where |-> None, Joins |-> <<>>,
     VectorOrderBy |-> None,
     Aggregates |-> <<[Function |-> "COUNT", Column |-> "*", Alias |-> "count"]>>,
     GroupBy |-> <<"id", "val">>, Having |-> None, Limit |-> 0, Offset |-> 0]

CreateTableGroup == CreateTableOf({<<cDup, cBody>>})
InsertGroup == InsertOf(GroupInserts, MaxSizedSlots)
SelectGroup == ExecuteGroupSelect(GroupStmt) /\ UNCHANGED inserted

NextGroup ==
    \/ CreateTableGroup
    \/ InsertGroup
    \/ SelectGroup

SpecGroup == TInit /\ [][NextGroup]_vars

\* the values a row holds in the GROUP BY columns
GroupTuple(row, columns) == [k \in 1..Len(columns) |-> Get(row, columns[k])]

RECURSIVE SumCounts(_, _)
SumCounts(rows, i) ==
    IF i > Len(rows) THEN 0 ELSE rows[i]["count"].v[1] + SumCounts(rows, i + 1)

\* C30: GROUP BY emits exactly one row per distinct tuple of GROUP BY values
\* of the input rows, so that two input rows share a group exactly when they
\* agree in every GROUP BY column, and the counts of all rows of the groups
\* add up to the number of input rows.
C30_OneRowPerTuple ==
    IF result.op = "select" /\ result.ok
    THEN /\ \A r \in 1..Len(tables["t"].Rows) :
               Cardinality({i \in 1..Len(result.rows) :
                               GroupTuple(result.rows[i], result.arg.GroupBy)
                                 = GroupTuple(tables["t"].Rows[r], result.arg.GroupBy)}) = 1
         /\ Len(result.rows)
              = Cardinality({GroupTuple(tables["t"].Rows[r], result.arg.GroupBy) :
                                r \in 1..Len(tables["t"].Rows)})
         /\ SumCounts(result.rows, 1) = Len(tables["t"].Rows)
    ELSE TRUE

=============================================================================
